---- MODULE Spec2Model ----
(***************************************************************************)
(* Verification model of the OscilloscopePlot waveform viewer:             *)
(*   - decimate_data            (src/oscilloscope_viewer.py)               *)
(*   - the parser registry and the can_parse detectors (src/parsers)       *)
(*   - OscilloscopeViewer.load_csv / load_binary and the parse calls       *)
(*   - the binary decode of load_binary, the preview reader and            *)
(*     detect_header_offset (src/oscilloscope_viewer.py)                   *)
(* The specifications share the module's variables:                        *)
(*   SpecDecimate  applies decimate_data to bounded series,                *)
(*   SpecSelect    runs the parser-selection loop on bounded first lines,  *)
(*   SpecBinary    decodes bounded byte files under bounded descriptors,   *)
(*   SpecDetect    runs detect_header_offset on bounded byte files,        *)
(*   Spec          runs the viewer: loads, cancellation, re-plots,         *)
(*   SpecLive      is Spec with a parse call that keeps going,             *)
(*   SpecView      is Spec with view changes dispatched during a load,     *)
(*   SpecReplot    re-plots loaded series longer than the point limit,     *)
(*   SpecParse     calls each parser with and without a progress callback. *)
(***************************************************************************)
EXTENDS Integers, Sequences, FiniteSets, TLC

VARIABLES
    \* ---- decimation harness (SpecDecimate) ----
    d_x,            \* input time axis
    d_y,            \* input value axis
    d_max_points,   \* max_points argument
    d_stage,        \* "input" | "once" | "twice"
    d_out,          \* decimate_data(d_x, d_y, d_max_points)
    d_out2,         \* decimate_data applied to d_out
    \* ---- parser selection harness (SpecSelect) ----
    s_lines,        \* first_lines handed to the can_parse methods
    s_idx,          \* position of the selection loop in AVAILABLE_PARSERS
    s_parser,       \* selected parser name, or "None"
    s_done,         \* the selection loop has finished
    \* ---- binary decode harness (SpecBinary) ----
    b_bytes,        \* the bytes of the file
    b_params,       \* the import settings (dlg.get_params())
    b_pc,           \* "idle" | "ready" | "decoded" | "previewed"
    b_read,         \* what load_binary computed and read, or None
    b_result,       \* the steps and the result of load_binary's try block
    b_preview,      \* the samples _read_channel_samples returns, with its offset
    \* ---- header detection harness (SpecDetect) ----
    a_bytes,        \* the bytes of the file
    a_params,       \* dtype, endian, channel_count, channel_index
    a_pc,           \* "idle" | "scan" (in the for loop) | "detected" (returned)
    a_off,          \* off, the offset of the next window
    a_best_offset,  \* best_offset
    a_best_score,   \* best_score
    \* ---- parse harness (SpecParse) ----
    p_file,         \* the lines of the file
    p_parser,       \* the parser load_csv would select for it
    p_pc,           \* "idle" | "ready" | "reported" | "parsed"
    p_with,         \* parse called with a callback that never raises
    p_without,      \* parse called with no callback
    \* ---- OscilloscopeViewer (Spec) ----
    self_metadata,           \* self.metadata
    self_raw_data,           \* self.raw_data: None or a data frame
    self_selected_channel,   \* self.selected_channel: None or a channel number
    self_decimation_factor,  \* self.decimation_factor
    self_data_info_label,    \* text of self.data_info_label
    self_channel_combo,      \* items, enabled flag and current item of the selector
    self_plot_widget,        \* what self.plot_widget shows: None or curve and labels
    message_box,        \* the QMessageBox.critical shown by the last load, or None
    \* ---- the load in progress ----
    l_pc,           \* "idle" | "parsing" (inside parser.parse) | "binary" |
                    \* "done" (the load handler is about to return)
    l_file,         \* the file being loaded: its lines, or its bytes
    l_parser,       \* the parser chosen by load_csv, or "None"
    l_script,       \* the steps the running call takes and its result
    l_pos,          \* steps of l_script already taken
    l_canceled,     \* progress.wasCanceled()
    l_events,       \* the values handed to progress.setValue, in order
    l_parse_calls,  \* parse calls made by the last load
    l_reader,       \* the chunked reader or data file handle of the running call:
                    \* "none" (not opened) | "open" | "closed"
    \* ---- what the plot shows besides the curve ----
    self_dark_mode,           \* self.dark_mode
    self_vertical_cursors,    \* positions of self.vertical_cursors, in order
    self_horizontal_cursors,  \* positions of self.horizontal_cursors, in order
    view_range,               \* self.plot_widget.viewRange(), as [x, y] of <<low, high>>
    \* ---- history of the last load ----
    h_pre,          \* self.metadata, self.raw_data, self.selected_channel when it started
    h_kind,         \* "none" | "csv" | "binary"
    h_cb_raised,    \* a progress callback raised InterruptedError
    h_parse_outcome,\* how parse ended: "none" | "returned" | "cancelled" | "error"
    h_outcome       \* how the load ended: "none" | "ok" | "unsupported" |
                    \* "cancelled" | "error"

dvars == <<d_x, d_y, d_max_points, d_stage, d_out, d_out2>>
svars == <<s_lines, s_idx, s_parser, s_done>>
state == <<self_metadata, self_raw_data, self_selected_channel>>
widgets == <<self_decimation_factor, self_data_info_label, self_channel_combo, self_plot_widget, message_box>>
lvars == <<l_pc, l_file, l_parser, l_script, l_pos, l_canceled, l_events, l_parse_calls,
           l_reader>>
hvars == <<h_pre, h_kind, h_cb_raised, h_parse_outcome, h_outcome>>
plotvars == <<self_dark_mode, self_vertical_cursors, self_horizontal_cursors, view_range>>
vvars == <<state, widgets, plotvars, lvars, hvars>>
bvars == <<b_bytes, b_params, b_pc, b_read, b_result, b_preview>>
avars == <<a_bytes, a_params, a_pc, a_off, a_best_offset, a_best_score>>
pvars == <<p_file, p_parser, p_pc, p_with, p_without>>
vars == <<dvars, svars, vvars, bvars, avars, pvars>>

NoSeries == <<>>

\* Python's None
None == [none |-> TRUE]

\* {}
EmptyDict == [k \in {} |-> None]

\* a channel number held where None may be held too
Ch(n) == [ch |-> n]

\* the text of a label
Label(text) == [text |-> text]

\* no call is running
NoScript == [steps |-> <<>>, result |-> None]

\* OscilloscopeViewer.__init__ and init_ui: nothing loaded, nothing running
ViewerInit ==
    /\ self_metadata = EmptyDict
    /\ self_raw_data = None
    /\ self_selected_channel = None
    /\ self_decimation_factor = 10000
    /\ self_data_info_label = Label("No data loaded")
    /\ self_channel_combo = [items |-> <<>>, enabled |-> FALSE, current |-> 0]
    /\ self_plot_widget = None
    /\ self_dark_mode = FALSE
    /\ self_vertical_cursors = <<>>
    /\ self_horizontal_cursors = <<>>
    /\ view_range = [x |-> <<0, 20>>, y |-> <<0, 20>>]
    /\ message_box = None
    /\ l_pc = "idle"
    /\ l_file = <<>>
    /\ l_parser = "None"
    /\ l_script = NoScript
    /\ l_pos = 0
    /\ l_canceled = FALSE
    /\ l_events = <<>>
    /\ l_parse_calls = 0
    /\ l_reader = "none"
    /\ h_pre = [metadata |-> EmptyDict, raw_data |-> None, selected_channel |-> None]
    /\ h_kind = "none"
    /\ h_cb_raised = FALSE
    /\ h_parse_outcome = "none"
    /\ h_outcome = "none"

\* the parse harness at rest
ParseIdle ==
    /\ p_file = <<>>
    /\ p_parser = "None"
    /\ p_pc = "idle"
    /\ p_with = NoScript
    /\ p_without = NoScript

\* the decimation harness at rest
DecimateIdle ==
    /\ d_x = NoSeries
    /\ d_y = NoSeries
    /\ d_max_points = 2
    /\ d_stage = "input"
    /\ d_out = [x |-> NoSeries, y |-> NoSeries]
    /\ d_out2 = [x |-> NoSeries, y |-> NoSeries]

\* the selection harness at rest
SelectIdle ==
    /\ s_lines = <<>>
    /\ s_idx = 1
    /\ s_parser = "None"
    /\ s_done = FALSE

\* the binary decode harness at rest
BinaryIdle ==
    /\ b_bytes = <<>>
    /\ b_params = None
    /\ b_pc = "idle"
    /\ b_read = None
    /\ b_result = NoScript
    /\ b_preview = None

\* the header detection harness at rest
DetectIdle ==
    /\ a_bytes = <<>>
    /\ a_params = None
    /\ a_pc = "idle"
    /\ a_off = 0
    /\ a_best_offset = 0
    /\ a_best_score = [inf |-> TRUE, num |-> 0, den |-> 1]

(***************************************************************************)
(* Bounds                                                                  *)
(***************************************************************************)
\* longest series handed to decimate_data
MaxLen == 8
\* sample values are 0..MaxVal
MaxVal == 2
\* largest max_points tried
MaxMaxPoints == 7
\* smallest max_points tried: the "Max Points" spin box never goes below its
\* lower limit, so max_points // 2 is never 0; 2 is the smallest such value
MinMaxPoints == 2

(***************************************************************************)
(* decimate_data                                                           *)
(***************************************************************************)
RECURSIVE SeqMin(_), SeqMax(_)
\* ndarray.min over one row
SeqMin(s) ==
    IF Len(s) = 1 THEN s[1]
    ELSE LET m == SeqMin(Tail(s)) IN IF s[1] < m THEN s[1] ELSE m

\* ndarray.max over one row
SeqMax(s) ==
    IF Len(s) = 1 THEN s[1]
    ELSE LET m == SeqMax(Tail(s)) IN IF s[1] > m THEN s[1] ELSE m

\* mutant of reshape: the last row takes the trailing remainder too
reshape_with_tail(a, n_chunks, factor) ==
    [i \in 1..n_chunks |->
        SubSeq(a, (i - 1) * factor + 1, IF i = n_chunks THEN Len(a) ELSE i * factor)]

\* a[:n_chunks * factor].reshape(-1, factor): n_chunks rows of factor samples
reshape(a, n_chunks, factor) ==
    [i \in 1..n_chunks |-> SubSeq(a, (i - 1) * factor + 1, i * factor)]

\* x_reshaped[:, 0]
first_column(rows) == [i \in 1..Len(rows) |-> rows[i][1]]

\* mutant of min_axis1: the first sample of each row (plain sub-sampling)
min_axis1_first_sample(rows) == [i \in 1..Len(rows) |-> rows[i][1]]

\* y_reshaped.min(axis=1)
min_axis1(rows) == [i \in 1..Len(rows) |-> SeqMin(rows[i])]

\* y_reshaped.max(axis=1)
max_axis1(rows) == [i \in 1..Len(rows) |-> SeqMax(rows[i])]

\* np.repeat(a, 2)
np_repeat2(a) == [k \in 1..(2 * Len(a)) |-> a[(k + 1) \div 2]]

\* mutant of dstack_flatten: the pair emitted in the order (b, a)
dstack_flatten_swapped(a, b) ==
    [k \in 1..(2 * Len(a)) |-> IF k % 2 = 1 THEN b[(k + 1) \div 2] ELSE a[k \div 2]]

\* np.dstack((a, b)).flatten(): a[0], b[0], a[1], b[1], ...
dstack_flatten(a, b) ==
    [k \in 1..(2 * Len(a)) |-> IF k % 2 = 1 THEN a[(k + 1) \div 2] ELSE b[k \div 2]]

\* mutant of decimation_factor_of: max_points not halved
decimation_factor_unhalved(len, max_points) == len \div max_points

\* the decimation factor of line 318
decimation_factor_of(len, max_points) == len \div (max_points \div 2)

\* the chunk count of line 321
n_chunks_of(len, max_points) == len \div decimation_factor_of(len, max_points)

\* mutant of decimate_data: the identity test is len(x) < max_points
decimate_data_strict(x, y, max_points) ==
    IF Len(x) < max_points THEN [x |-> x, y |-> y]
    ELSE LET decimation_factor == decimation_factor_of(Len(x), max_points)
             n_chunks == n_chunks_of(Len(x), max_points)
             x_reshaped == reshape(x, n_chunks, decimation_factor)
             y_reshaped == reshape(y, n_chunks, decimation_factor)
         IN [x |-> np_repeat2(first_column(x_reshaped)),
             y |-> dstack_flatten(min_axis1(y_reshaped), max_axis1(y_reshaped))]

decimate_data(x, y, max_points) ==
    IF Len(x) <= max_points THEN [x |-> x, y |-> y]
    ELSE LET decimation_factor == decimation_factor_of(Len(x), max_points)
             n_chunks == n_chunks_of(Len(x), max_points)
             x_reshaped == reshape(x, n_chunks, decimation_factor)
             y_reshaped == reshape(y, n_chunks, decimation_factor)
             x_decimated == first_column(x_reshaped)
             y_mins == min_axis1(y_reshaped)
             y_maxs == max_axis1(y_reshaped)
         IN [x |-> np_repeat2(x_decimated), y |-> dstack_flatten(y_mins, y_maxs)]

(***************************************************************************)
(* SpecDecimate: decimate_data applied to every bounded series, then to    *)
(* its own output.                                                         *)
(***************************************************************************)
\* the worked example: time 0..7, values [5,1,9,2,8,0,7,3], max_points 4
Example ==
    [x |-> <<0, 1, 2, 3, 4, 5, 6, 7>>, y |-> <<5, 1, 9, 2, 8, 0, 7, 3>>, max_points |-> 4]

InitDecimate ==
    /\ \/ /\ \E n \in 0..MaxLen :
                /\ d_x = [i \in 1..n |-> i - 1]
                /\ d_y \in [1..n -> 0..MaxVal]
          /\ d_max_points \in MinMaxPoints..MaxMaxPoints
       \/ /\ d_x = Example.x
          /\ d_y = Example.y
          /\ d_max_points = Example.max_points
    /\ d_stage = "input"
    /\ d_out = [x |-> NoSeries, y |-> NoSeries]
    /\ d_out2 = [x |-> NoSeries, y |-> NoSeries]
    /\ BinaryIdle
    /\ DetectIdle /\ ParseIdle
    /\ SelectIdle
    /\ ViewerInit

Decimate ==
    /\ d_stage = "input"
    /\ d_out' = decimate_data(d_x, d_y, d_max_points)
    /\ d_stage' = "once"
    /\ UNCHANGED <<d_x, d_y, d_max_points, d_out2, svars, vvars, bvars, avars, pvars>>

Redecimate ==
    /\ d_stage = "once"
    /\ d_out2' = decimate_data(d_out.x, d_out.y, d_max_points)
    /\ d_stage' = "twice"
    /\ UNCHANGED <<d_x, d_y, d_max_points, d_out, svars, vvars, bvars, avars, pvars>>

NextDecimate == Decimate \/ Redecimate

SpecDecimate == InitDecimate /\ [][NextDecimate]_vars

(***************************************************************************)
(* Text of the first lines.  A line is the sequence of its comma-separated *)
(* fields; a field is one string of a fixed vocabulary.  Python's          *)
(* substring, prefix, lower-casing, regular-expression and float() tests   *)
(* are tables over that vocabulary.                                        *)
(***************************************************************************)
EmptyLine == <<"">>

\* str.lower() of a field
Lower(f) ==
    CASE f = "Record Length" -> "record length"
      [] f = "Model Number" -> "model number"
      [] f = "Start Time in s" -> "start time in s"
      [] f = "CH1 minimum in V" -> "ch1 minimum in v"
      [] f = "CH1 maximum in V" -> "ch1 maximum in v"
      [] f = "CH2 minimum in V" -> "ch2 minimum in v"
      [] f = "CH2 maximum in V" -> "ch2 maximum in v"
      [] f = "CH1 in V" -> "ch1 in v"
      [] f = "Time(s)" -> "time(s)"
      [] f = "Rel Time(s)" -> "rel time(s)"
      [] f = "CH1V" -> "ch1v"
      [] f = "RIGOL:CSV DATA FILE" -> "rigol:csv data file"
      [] f = "Second" -> "second"
      [] f = "Value" -> "value"
      [] OTHER -> f

\* the pairs <<m, f>> with m a proper substring of f, for the patterns the
\* detectors look for
ProperSubstrings ==
    { <<"time in s", "start time in s">>,
      <<"minimum", "ch1 minimum in v">>, <<"minimum", "ch2 minimum in v">>,
      <<"maximum", "ch1 maximum in v">>, <<"maximum", "ch2 maximum in v">>,
      <<"minimum", "CH1 minimum in V">>, <<"minimum", "CH2 minimum in V">>,
      <<"maximum", "CH1 maximum in V">>, <<"maximum", "CH2 maximum in V">>,
      <<"ch1 minimum", "ch1 minimum in v">>, <<"ch1 maximum", "ch1 maximum in v">>,
      <<"time(", "time(s)">> }

\* m in f, for one field f
InField(m, f) == m = f \/ <<m, f>> \in ProperSubstrings

\* m in line, for a pattern m without a comma
InLine(m, line) == \E i \in 1..Len(line) : InField(m, line[i])

\* f.endswith(a): the vocabulary fields that end with a pattern's first half
EndsWith(f, a) == f = a \/ (a = "Time(s)" /\ f = "Rel Time(s)")

\* 'a,b' in line, for a pattern that spans one comma: a field that ends with
\* a, directly followed by a field that starts with b (no vocabulary field
\* has b as a proper prefix)
PairInLine(a, b, line) ==
    \E i \in 1..(Len(line) - 1) : EndsWith(line[i], a) /\ line[i + 1] = b

\* line.lower()
LowerLine(line) == [i \in 1..Len(line) |-> Lower(line[i])]

\* re.search(r'ch\d+\s+minimum', line) and re.search(r'ch\d+\s+maximum', line)
MatchesChMinimum(f) == f \in {"ch1 minimum in v", "ch2 minimum in v"}
MatchesChMaximum(f) == f \in {"ch1 maximum in v", "ch2 maximum in v"}

\* field.startswith(c) for c in 'x', 'y'
StartsWith(f, c) == (c = "x" /\ f = "x0000") \/ (c = "y" /\ f = "y0000")

\* float(field) succeeds
IsFloat(f) == f \in {"0.5", "-1.5"}

\* line.strip() is empty
IsBlank(line) == line = EmptyLine

(***************************************************************************)
(* can_parse of the six parsers                                            *)
(***************************************************************************)
\* SiglentCSVParser.can_parse
siglent_can_parse(first_lines) ==
    /\ \E i \in 1..Len(first_lines) : InLine("Record Length", first_lines[i])
    /\ \E i \in 1..Len(first_lines) : InLine("Model Number", first_lines[i])

\* BatronixCSVParser.can_parse
batronix_can_parse(first_lines) ==
    \E i \in 1..Len(first_lines) :
        InLine("time difference to trigger in s", first_lines[i])

\* the header_line of BatronixDisplayCSVParser.can_parse: the first lower-cased
\* line with 'time in s', 'minimum' and 'maximum', or '' when there is none
display_header_line(lines) ==
    LET hits == { i \in 1..Len(lines) :
                     /\ InLine("time in s", lines[i])
                     /\ InLine("minimum", lines[i])
                     /\ InLine("maximum", lines[i]) }
    IN IF hits = {} THEN EmptyLine
       ELSE lines[CHOOSE i \in hits : \A j \in hits : i <= j]

\* mutant of batronix_display_can_parse: the lines are not lower-cased
batronix_display_can_parse_case_sensitive(first_lines) ==
    IF Len(first_lines) = 0 THEN FALSE
    ELSE LET has_header1 ==
                 \E i \in 1..Len(first_lines) : InLine("start time in s", first_lines[i])
             header_line == display_header_line(first_lines)
         IN has_header1 /\ \E k \in 1..Len(header_line) : InField("minimum", header_line[k])

\* BatronixDisplayCSVParser.can_parse
batronix_display_can_parse(first_lines) ==
    IF Len(first_lines) = 0 THEN FALSE
    ELSE LET lines == [i \in 1..Len(first_lines) |-> LowerLine(first_lines[i])]
             has_header1 == \E i \in 1..Len(lines) : InLine("start time in s", lines[i])
             header_line == display_header_line(lines)
             has_any_channel ==
                 /\ \E k \in 1..Len(header_line) : MatchesChMinimum(header_line[k])
                 /\ \E k \in 1..Len(header_line) : MatchesChMaximum(header_line[k])
         IN has_header1 /\ (has_any_channel
                            \/ (InLine("ch1 minimum", header_line)
                                /\ InLine("ch1 maximum", header_line)))

\* RigolCSVParser.can_parse
rigol_can_parse(first_lines) ==
    \E i \in 1..Len(first_lines) : PairInLine("Time(s)", "CH1V", first_lines[i])

\* RigolArbCSVParser.can_parse
rigol_arb_can_parse(first_lines) ==
    \E i \in 1..Len(first_lines) : InLine("RIGOL:CSV DATA FILE", first_lines[i])

RECURSIVE numeric_pairs(_, _, _)
\* the loop over first_lines[1:] of PyqtgraphCSVParser.can_parse, at the line
\* of 1-based position i with numeric_pair_count pairs seen so far
numeric_pairs(first_lines, i, numeric_pair_count) ==
    IF i > Len(first_lines) THEN FALSE
    ELSE LET line == first_lines[i] IN
         IF IsBlank(line) THEN numeric_pairs(first_lines, i + 1, numeric_pair_count)
         ELSE IF Len(line) >= 2 /\ IsFloat(line[1]) /\ IsFloat(line[2])
              THEN IF numeric_pair_count + 1 >= 2 THEN TRUE
                   ELSE numeric_pairs(first_lines, i + 1, numeric_pair_count + 1)
              ELSE FALSE

\* PyqtgraphCSVParser.can_parse
pyqtgraph_can_parse(first_lines) ==
    LET non_empty == { i \in 1..Len(first_lines) : ~IsBlank(first_lines[i]) } IN
    IF Len(first_lines) = 0 \/ non_empty = {} THEN FALSE
    ELSE LET header == first_lines[CHOOSE i \in non_empty : \A j \in non_empty : i <= j]
             parts == LowerLine(header)
         IN IF Len(parts) < 2 THEN FALSE
            ELSE IF StartsWith(parts[1], "x") /\ StartsWith(parts[2], "y") THEN TRUE
            ELSE IF InField("second", parts[1]) \/ InField("time(", parts[1]) THEN FALSE
            ELSE numeric_pairs(first_lines, 2, 0)

\* mutant of AVAILABLE_PARSERS: the generic parser first
AVAILABLE_PARSERS_generic_first ==
    <<"Pyqtgraph", "Siglent", "Batronix", "BatronixDisplay", "Rigol", "RigolArb">>

\* the registry, in its fixed order
AVAILABLE_PARSERS ==
    <<"Siglent", "Batronix", "BatronixDisplay", "Rigol", "RigolArb", "Pyqtgraph">>

\* p.can_parse(first_lines), dispatched on the parser
can_parse(p, first_lines) ==
    CASE p = "Siglent" -> siglent_can_parse(first_lines)
      [] p = "Batronix" -> batronix_can_parse(first_lines)
      [] p = "BatronixDisplay" -> batronix_display_can_parse(first_lines)
      [] p = "Rigol" -> rigol_can_parse(first_lines)
      [] p = "RigolArb" -> rigol_arb_can_parse(first_lines)
      [] p = "Pyqtgraph" -> pyqtgraph_can_parse(first_lines)

(***************************************************************************)
(* Numbers, cells and data frames                                          *)
(***************************************************************************)
\* float(field), in units of 1/20
FloatOf(f) == IF f = "0.5" THEN 10 ELSE -30

\* cells of a data frame: a float, a string (object dtype) or NaN
Num(n) == [f |-> n]
Str(t) == [s |-> t]
NaN == [nan |-> TRUE]
IsNum(c) == DOMAIN c = {"f"}

\* len(field), in bytes
FieldLen(f) ==
    CASE f = "" -> 0
      [] f = "Record Length" -> 13
      [] f = "Model Number" -> 12
      [] f = "time difference to trigger in s" -> 31
      [] f = "start time in s" -> 15
      [] f = "Start Time in s" -> 15
      [] f = "time difference in s" -> 20
      [] f = "time in s" -> 9
      [] f = "CH1 minimum in V" -> 16
      [] f = "CH1 maximum in V" -> 16
      [] f = "CH2 minimum in V" -> 16
      [] f = "CH2 maximum in V" -> 16
      [] f = "CH1 in V" -> 8
      [] f = "Time(s)" -> 7
      [] f = "Rel Time(s)" -> 11
      [] f = "CH1V" -> 4
      [] f = "RIGOL:CSV DATA FILE" -> 19
      [] f = "Sample Rate:0.5" -> 15
      [] f = "DATA Number:0" -> 13
      [] f = "DATA Number:-2" -> 14
      [] f = "x0000" -> 5
      [] f = "y0000" -> 5
      [] f = "Second" -> 6
      [] f = "Value" -> 5
      [] f = "0.5" -> 3
      [] f = "-1.5" -> 4
      [] f = "abc" -> 3

RECURSIVE SumLens(_)
SumLens(line) == IF line = <<>> THEN 0 ELSE FieldLen(Head(line)) + SumLens(Tail(line))

\* len(line.encode('utf-8')): the fields, the commas between them, the newline
LineBytes(line) == SumLens(line) + (Len(line) - 1) + 1

RECURSIVE SumBytes(_)
SumBytes(lines) == IF lines = <<>> THEN 0 ELSE LineBytes(Head(lines)) + SumBytes(Tail(lines))

\* Path(file_path).stat().st_size
file_size_of(file_lines) == SumBytes(file_lines)

\* int(a / b) for b # 0: the quotient truncated toward zero
TruncDiv(a, b) ==
    IF (a >= 0) = (b > 0)
    THEN (IF a >= 0 THEN a ELSE -a) \div (IF b > 0 THEN b ELSE -b)
    ELSE -((IF a >= 0 THEN a ELSE -a) \div (IF b > 0 THEN b ELSE -b))

Min2(a, b) == IF a < b THEN a ELSE b
Max2(a, b) == IF a > b THEN a ELSE b

\* rows per chunk handed to pd.read_csv (chunksize=chunk_size), scaled down
chunk_size == 2

\* the lines left after skiprows, blank lines skipped (skip_blank_lines)
csv_body(file_lines, skiprows) ==
    SelectSeq(SubSeq(file_lines, skiprows + 1, Len(file_lines)), LAMBDA l : ~IsBlank(l))

\* one parsed cell of a column that pandas could not make numeric stays a
\* string; an absent or empty field is NaN
raw_cell(row, k) ==
    IF k > Len(row) \/ row[k] = "" THEN NaN ELSE Str(row[k])

\* a column of one chunk is float64 when every present field parses as a
\* float, else object
column_is_numeric(rows, k) ==
    \A i \in 1..Len(rows) : (k > Len(rows[i]) \/ rows[i][k] = "" \/ IsFloat(rows[i][k]))

\* the cells of one chunk: per column dtype inference
chunk_cells(rows, ncols) ==
    [i \in 1..Len(rows) |->
        [k \in 1..ncols |->
            IF column_is_numeric(rows, k) /\ raw_cell(rows[i], k) # NaN
            THEN Num(FloatOf(rows[i][k]))
            ELSE raw_cell(rows[i], k)]]

\* the chunks pd.read_csv(..., chunksize=chunk_size) yields for the data
\* rows: ceil(n / chunk_size) chunks, and one empty chunk when there is no row
n_chunks_read(n_rows) ==
    IF n_rows = 0 THEN 1 ELSE (n_rows + chunk_size - 1) \div chunk_size

\* the text rows of chunk c (1-based)
chunk_rows(rows, c) ==
    SubSeq(rows, (c - 1) * chunk_size + 1, Min2(c * chunk_size, Len(rows)))

\* a row with more fields than columns: "Error tokenizing data"
row_too_long(rows, ncols) == \E i \in 1..Len(rows) : Len(rows[i]) > ncols

\* chunk.memory_usage(deep=True).sum() of a chunk of float64 columns: the
\* RangeIndex plus 8 bytes per cell
memory_usage(n_rows, ncols) == 132 + 8 * n_rows * ncols

\* position of the first column with a name, 0 when absent
column_index(columns, name) ==
    LET hits == { k \in 1..Len(columns) : columns[k] = name }
    IN IF hits = {} THEN 0 ELSE CHOOSE k \in hits : \A j \in hits : k <= j

\* pd.concat(chunks, ignore_index=True) of chunks given as row lists
RECURSIVE concat(_)
concat(chunks) == IF chunks = <<>> THEN <<>> ELSE Head(chunks) \o concat(Tail(chunks))

DataFrame(columns, rows) == [columns |-> columns, rows |-> rows]

(***************************************************************************)
(* Results and steps of a parse call                                       *)
(***************************************************************************)
\* the (metadata, data) pair a parse returns
Returned(metadata, data) == [kind |-> "ok", metadata |-> metadata, data |-> data]

\* an exception other than InterruptedError leaving parse
Raised(exc, message) == [kind |-> "error", exc |-> exc, message |-> message]

\* progress_callback(current, 100, message); guarded says the call sits inside
\* a try block whose handler is "except Exception"
Callback(current, message, guarded) ==
    [op |-> "callback", current |-> current, total |-> 100, message |-> message,
     guarded |-> guarded]

\* one chunk delivered by the chunked reader
ChunkRead(n_rows) == [op |-> "chunk", rows |-> n_rows]

\* a parse call as the steps it takes when the callback never raises, and
\* how it ends
Script(steps, result) == [steps |-> steps, result |-> result]

\* metadata dictionaries: functions from keys to values; a key is the tuple of
\* the comma-separated fields of the key string
DictSet(dict, key, value) ==
    [k \in (DOMAIN dict) \cup {key} |-> IF k = key THEN value ELSE dict[k]]
DictGet(dict, key, default) == IF key \in DOMAIN dict THEN dict[key] ELSE default
StrList(l) == [list |-> l]
StrVal(t) == [str |-> t]
IntList(l) == [ints |-> l]
NumList(l) == [nums |-> l]

(***************************************************************************)
(* The parse methods.  Each gives the steps parse takes on a file whose    *)
(* callback never raises (callbacks and chunk reads, in order) and the     *)
(* result it ends with.                                                    *)
(***************************************************************************)
SetMin(S) == CHOOSE k \in S : \A j \in S : k <= j

\* rows processed once chunk c (1-based) has been appended
rows_after_chunk(n_rows, c) == Min2(c * chunk_size, n_rows)

\* the first chunk whose read fails for a row that is too long, 0 when none does
first_failing_chunk(rows, ncols) ==
    LET bad == { c \in 1..n_chunks_read(Len(rows)) : row_too_long(chunk_rows(rows, c), ncols) }
    IN IF bad = {} THEN 0 ELSE SetMin(bad)

\* the cells of all chunks, concatenated
all_cells(rows, ncols) ==
    concat([c \in 1..n_chunks_read(Len(rows)) |-> chunk_cells(chunk_rows(rows, c), ncols)])

RECURSIVE siglent_metadata(_, _)
\* "key, *values = line.strip().split(',')" for every metadata line with a comma
siglent_metadata(metadata_lines, metadata) ==
    IF metadata_lines = <<>> THEN metadata
    ELSE LET line == Head(metadata_lines) IN
         siglent_metadata(Tail(metadata_lines),
                          IF Len(line) >= 2
                          THEN DictSet(metadata, <<line[1]>>, StrList(Tail(line)))
                          ELSE metadata)

\* a row that dtype={'Second': float, 'Value': float} cannot convert
siglent_row_fails(columns, row) ==
    \E k \in 1..Len(columns) :
        /\ columns[k] \in {"Second", "Value"}
        /\ k <= Len(row)
        /\ row[k] # ""
        /\ ~IsFloat(row[k])

\* a chunk the reader cannot deliver: a row too long, or a field of the two
\* float columns that is no number
siglent_chunk_fails(columns, chunk) ==
    \/ row_too_long(chunk, Len(columns))
    \/ \E i \in 1..Len(chunk) : siglent_row_fails(columns, chunk[i])

\* SiglentCSVParser.parse
siglent_parse(file_lines) ==
    LET file_size == file_size_of(file_lines)
        header_hits == { i \in 1..Len(file_lines) : PairInLine("Second", "Value", file_lines[i]) }
        n_metadata_lines == IF header_hits = {} THEN Len(file_lines) ELSE SetMin(header_hits) - 1
        metadata == siglent_metadata(SubSeq(file_lines, 1, n_metadata_lines), EmptyDict)
        body == csv_body(file_lines, n_metadata_lines)
        before == <<Callback(0, "Reading metadata...", FALSE),
                    Callback(10, "Reading data...", FALSE)>>
    IN IF body = <<>>
       THEN Script(before, Raised("EmptyDataError", "No columns to parse from file"))
       ELSE
       LET columns == body[1]
           rows == Tail(body)
           ncols == Len(columns)
           bad == { c \in 1..n_chunks_read(Len(rows)) :
                      siglent_chunk_fails(columns, chunk_rows(rows, c)) }
           failing == IF bad = {} THEN 0 ELSE SetMin(bad)
           n_ok == IF failing = 0 THEN n_chunks_read(Len(rows)) ELSE failing - 1
           progress(c) ==
               LET current_size == rows_after_chunk(Len(rows), c)
                                   * memory_usage(Len(chunk_rows(rows, c)), ncols)
               IN Min2(90, 10 + TruncDiv(80 * current_size, file_size))
           loop == concat([c \in 1..n_ok |->
                       <<ChunkRead(Len(chunk_rows(rows, c))),
                         Callback(progress(c), "Reading data... (points)", FALSE)>>])
       IN IF failing # 0
          THEN Script(before \o loop,
                      IF row_too_long(chunk_rows(rows, failing), ncols)
                      THEN Raised("ParserError", "Error tokenizing data")
                      ELSE Raised("ValueError", "could not convert string to float"))
          ELSE Script(before \o loop
                      \o <<Callback(90, "Combining data chunks...", FALSE),
                           Callback(100, "Done!", FALSE)>>,
                      Returned(metadata, DataFrame(columns, all_cells(rows, ncols))))

RECURSIVE batronix_metadata(_, _)
\* "metadata[line] = []" for every non-empty line before the data header
batronix_metadata(scanned, metadata) ==
    IF scanned = <<>> THEN metadata
    ELSE batronix_metadata(Tail(scanned),
                           IF IsBlank(Head(scanned)) THEN metadata
                           ELSE DictSet(metadata, Head(scanned), StrList(<<>>)))

\* BatronixCSVParser.parse, called with a progress callback or without one;
\* every step from the size estimate on sits in the
\* try block whose handler turns any Exception into a ValueError
batronix_call(file_lines, progress_callback) ==
    LET hits == { i \in 1..Len(file_lines) : file_lines[i][1] = "time in s" }
        header_found == hits # {}
        header_line == IF header_found THEN SetMin(hits) ELSE 0
        scanned == IF header_found THEN SubSeq(file_lines, 1, header_line - 1) ELSE file_lines
        \* "i % 1000 == 0" holds at i = 0 only in a file of fewer than 1000 lines
        scan == <<Callback(0, "Reading file structure...", FALSE)>>
                \o (IF scanned # <<>> THEN <<Callback(5, "Scanning header...", FALSE)>> ELSE <<>>)
    IN IF ~header_found
       THEN Script(scan, Raised("ValueError", "Could not find data header in Batronix CSV file"))
       ELSE
       LET metadata == DictSet(batronix_metadata(scanned, EmptyDict), <<"format">>, StrVal("Batronix"))
           before == scan \o <<Callback(15, "Reading data...", FALSE)>>
           file_size == file_size_of(file_lines)
           sample == SubSeq(file_lines, header_line + 1, Len(file_lines))
           total_length == SumBytes(sample)
           lines_read == Len(sample)
           \* int((file_size - header_line * avg_line_length) / avg_line_length)
           estimated_total_rows ==
               IF lines_read > 0
               THEN TruncDiv(file_size * lines_read - header_line * total_length, total_length)
               ELSE 1
           columns == <<"Second", "Value">>
           rows == csv_body(file_lines, header_line)
           n == n_chunks_read(Len(rows))
           \* min(90, int(20 + 70 * (rows_processed / estimated_total_rows)))
           progress(c) ==
               Min2(90, TruncDiv(20 * estimated_total_rows
                                 + 70 * rows_after_chunk(Len(rows), c),
                                 estimated_total_rows))
           loop == concat([c \in 1..n |->
                       <<ChunkRead(Len(chunk_rows(rows, c)))>>
                       \o (IF progress_callback
                           THEN <<Callback(progress(c),
                                           "Reading data... (approximately points)", TRUE)>>
                           ELSE <<>>)])
       IN IF progress_callback /\ estimated_total_rows = 0
          THEN Script(before \o <<ChunkRead(Len(chunk_rows(rows, 1)))>>,
                      Raised("ValueError", "Error reading Batronix CSV data: division by zero"))
          ELSE Script(before \o loop
                      \o <<Callback(90, "Combining data chunks...", TRUE),
                           Callback(100, "Done! Total points", TRUE)>>,
                      Returned(metadata, DataFrame(columns, all_cells(rows, 2))))

\* BatronixCSVParser.parse
batronix_parse(file_lines) == batronix_call(file_lines, TRUE)

\* data.rename(columns={'Time(s)': 'Second', 'CH1V': 'Value'})
rigol_rename(columns) ==
    [k \in 1..Len(columns) |->
        IF columns[k] = "Time(s)" THEN "Second"
        ELSE IF columns[k] = "CH1V" THEN "Value" ELSE columns[k]]

\* RigolCSVParser.parse
rigol_parse(file_lines) ==
    LET file_size == file_size_of(file_lines)
        metadata == DictSet(EmptyDict, <<"format">>, StrVal("Rigol"))
        body == csv_body(file_lines, 0)
        before == <<Callback(0, "Reading data...", FALSE)>>
    IN IF body = <<>>
       THEN Script(before, Raised("EmptyDataError", "No columns to parse from file"))
       ELSE
       LET columns == body[1]
           rows == Tail(body)
           ncols == Len(columns)
           failing == first_failing_chunk(rows, ncols)
           n_ok == IF failing = 0 THEN n_chunks_read(Len(rows)) ELSE failing - 1
           progress(c) ==
               LET current_size == rows_after_chunk(Len(rows), c)
                                   * memory_usage(Len(chunk_rows(rows, c)), ncols)
               IN Min2(90, TruncDiv(80 * current_size, file_size))
           loop == concat([c \in 1..n_ok |->
                       <<ChunkRead(Len(chunk_rows(rows, c))),
                         Callback(progress(c), "Reading data... (points)", FALSE)>>])
       IN IF failing # 0
          THEN Script(before \o loop, Raised("ParserError", "Error tokenizing data"))
          ELSE Script(before \o loop
                      \o <<Callback(90, "Processing data...", FALSE),
                           Callback(100, "Done!", FALSE)>>,
                      Returned(metadata, DataFrame(rigol_rename(columns), all_cells(rows, ncols))))

\* the channel number and the kind matched by
\* r'^ch(\d+)\s+(minimum|maximum)\s+in\s+v$' on a lower-cased column name
display_channel_of(f) ==
    CASE f \in {"ch1 minimum in v", "ch1 maximum in v"} -> 1
      [] f \in {"ch2 minimum in v", "ch2 maximum in v"} -> 2
      [] OTHER -> 0
display_kind_of(f) ==
    CASE f \in {"ch1 minimum in v", "ch2 minimum in v"} -> "minimum"
      [] f \in {"ch1 maximum in v", "ch2 maximum in v"} -> "maximum"
      [] OTHER -> "none"

\* f'Value_CH{ch}'
value_ch_name(ch) == IF ch = 1 THEN "Value_CH1" ELSE "Value_CH2"

\* pd.to_numeric(column, errors='coerce') of one field of a row
to_numeric(row, k) ==
    IF k >= 1 /\ k <= Len(row) /\ IsFloat(row[k]) THEN Num(FloatOf(row[k])) ELSE NaN

\* (min_s + max_s) / 2.0
midline(a, b) == IF IsNum(a) /\ IsNum(b) THEN Num((a.f + b.f) \div 2) ELSE NaN

\* norm.dropna(subset=['Second', 'Value']) with the columns at positions 1 and v
dropna(rows, v) == SelectSeq(rows, LAMBDA r : IsNum(r[1]) /\ IsNum(r[v]))

\* ascending list of the members of a set of channel numbers
sorted_channels(S) ==
    IF S = {} THEN <<>>
    ELSE IF S = {1} THEN <<1>>
    ELSE IF S = {2} THEN <<2>>
    ELSE <<1, 2>>

\* BatronixDisplayCSVParser.parse
batronix_display_parse(file_lines) ==
    LET line2 == IF Len(file_lines) >= 2 THEN file_lines[2] ELSE EmptyLine
        timing == IF Len(line2) >= 2 /\ IsFloat(line2[1]) /\ IsFloat(line2[2])
                  THEN DictSet(DictSet(EmptyDict,
                                       <<"Start Time (s)">>, NumList(<<FloatOf(line2[1])>>)),
                               <<"Time Step (s)">>, NumList(<<FloatOf(line2[2])>>))
                  ELSE EmptyDict
        metadata == DictSet(DictSet(DictSet(timing,
                        <<"Horizontal Units">>, StrList(<<"s">>)),
                        <<"Vertical Units">>, StrList(<<"V">>)),
                        <<"format">>, StrVal("Batronix Display Data"))
        before == <<Callback(0, "Reading data...", FALSE)>>
        file_size == file_size_of(file_lines)
        sample == SubSeq(file_lines, 4, Len(file_lines))
        \* max(1, int((file_size - 200) / avg_line_length)); 1 when fewer than
        \* three lines exist (StopIteration) or no line was sampled
        estimated_total_rows ==
            IF Len(file_lines) >= 3 /\ Len(sample) > 0
            THEN Max2(1, TruncDiv((file_size - 200) * Len(sample), SumBytes(sample)))
            ELSE 1
        body == csv_body(file_lines, 2)
    IN IF body = <<>>
       THEN Script(before, Raised("EmptyDataError", "No columns to parse from file"))
       ELSE
       LET columns == body[1]
           rows == Tail(body)
           ncols == Len(columns)
           cols_lower == LowerLine(columns)
           time_col == column_index(cols_lower, "time in s")
           pair_channels == { display_channel_of(cols_lower[k]) : k \in 1..ncols } \ {0}
           col_of(ch, kind) ==
               LET hits == { k \in 1..ncols : display_channel_of(cols_lower[k]) = ch
                                              /\ display_kind_of(cols_lower[k]) = kind }
               IN IF hits = {} THEN 0 ELSE CHOOSE k \in hits : \A j \in hits : j <= k
           available == { ch \in pair_channels :
                            col_of(ch, "minimum") # 0 /\ col_of(ch, "maximum") # 0 }
           available_channels == sorted_channels(available)
           primary_ch == IF 1 \in available THEN 1 ELSE SetMin(available)
           primary_pos == 1 + column_index(available_channels, primary_ch)
           out_columns == <<"Second">>
                          \o [k \in 1..Len(available_channels) |-> value_ch_name(available_channels[k])]
                          \o <<"Value">>
           norm_row(row) ==
               LET mids == [k \in 1..Len(available_channels) |->
                               midline(to_numeric(row, col_of(available_channels[k], "minimum")),
                                       to_numeric(row, col_of(available_channels[k], "maximum")))]
               IN <<to_numeric(row, time_col)>> \o mids
                  \o <<mids[column_index(available_channels, primary_ch)]>>
           norm(chunk) == dropna([i \in 1..Len(chunk) |-> norm_row(chunk[i])], primary_pos)
           failing == first_failing_chunk(rows, ncols)
           n == n_chunks_read(Len(rows))
           n_ok == IF failing = 0 THEN n ELSE failing - 1
           kept(c) == Len(concat([j \in 1..c |-> norm(chunk_rows(rows, j))]))
           progress(c) ==
               Min2(95, 10 + TruncDiv(80 * kept(c), Max2(estimated_total_rows, 1)))
           loop == concat([c \in 1..n_ok |->
                       <<ChunkRead(Len(chunk_rows(rows, c))),
                         Callback(progress(c), "Reading data... (approximately points)", FALSE)>>])
           first_chunk == <<ChunkRead(Len(chunk_rows(rows, 1)))>>
       IN IF failing = 1
          THEN Script(before, Raised("ParserError", "Error tokenizing data"))
          ELSE IF time_col = 0
          THEN Script(before \o first_chunk,
                      Raised("ValueError", "Missing \"time in s\" column in Display file header"))
          ELSE IF pair_channels = {}
          THEN Script(before \o first_chunk,
                      Raised("ValueError", "No channel min/max columns found"))
          ELSE IF available = {}
          THEN Script(before \o first_chunk,
                      Raised("ValueError", "No complete min/max pairs found for any channel"))
          ELSE IF failing # 0
          THEN Script(before \o loop, Raised("ParserError", "Error tokenizing data"))
          ELSE Script(before \o loop
                      \o <<Callback(97, "Combining data chunks...", FALSE),
                           Callback(100, "Done! Total points", FALSE)>>,
                      Returned(DictSet(metadata, <<"Channels">>, IntList(available_channels)),
                               DataFrame(out_columns,
                                         concat([c \in 1..n |-> norm(chunk_rows(rows, c))]))))

\* line.split(':', 1) of the vocabulary fields with a colon
ColonFields ==
    [f \in {"RIGOL:CSV DATA FILE", "Sample Rate:0.5", "DATA Number:0", "DATA Number:-2"} |->
        CASE f = "RIGOL:CSV DATA FILE" -> [key |-> "RIGOL", value |-> "CSV DATA FILE"]
          [] f = "Sample Rate:0.5" -> [key |-> "Sample Rate", value |-> "0.5"]
          [] f = "DATA Number:0" -> [key |-> "DATA Number", value |-> "0"]
          [] f = "DATA Number:-2" -> [key |-> "DATA Number", value |-> "-2"]]

\* ':' in line
HasColon(line) == \E k \in 1..Len(line) : line[k] \in DOMAIN ColonFields

\* line[0].isdigit()
FirstCharIsDigit(line) == line[1] = "0.5"

\* float(line) of a whole stripped line succeeds
LineIsFloat(line) == Len(line) = 1 /\ IsFloat(line[1])

RECURSIVE rigol_arb_scan(_, _, _)
\* the first pass over the file, at 0-based line number i: the metadata
\* gathered and the first data line found (<<>> when the file ends first)
rigol_arb_scan(file_lines, i, metadata) ==
    IF i >= Len(file_lines) THEN [metadata |-> metadata, data_lines |-> <<>>]
    ELSE LET line == file_lines[i + 1] IN
         IF IsBlank(line) THEN rigol_arb_scan(file_lines, i + 1, metadata)
         ELSE IF HasColon(line) /\ i < 10
              THEN rigol_arb_scan(file_lines, i + 1,
                                  DictSet(metadata, <<ColonFields[line[1]].key>>,
                                          StrVal(ColonFields[line[1]].value)))
         ELSE IF FirstCharIsDigit(line)
              THEN [metadata |-> metadata, data_lines |-> <<line>>]
         ELSE rigol_arb_scan(file_lines, i + 1, metadata)

\* the floats appended by the second pass, in order
arb_values(lines) ==
    LET numeric == SelectSeq(lines, LAMBDA l : ~IsBlank(l) /\ FirstCharIsDigit(l) /\ LineIsFloat(l))
    IN [i \in 1..Len(numeric) |-> FloatOf(numeric[i][1])]

\* RigolArbCSVParser.parse, called with a progress callback or without one
rigol_arb_call(file_lines, progress_callback) ==
    LET scan == rigol_arb_scan(file_lines, 0, EmptyDict)
        metadata == scan.metadata
        \* float(metadata.get('Sample Rate', '1')), in twentieths
        sample_rate == IF <<"Sample Rate">> \in DOMAIN metadata
                       THEN FloatOf(metadata[<<"Sample Rate">>].str) ELSE 20
        \* metadata.get('DATA Number', '1')
        data_number == IF <<"DATA Number">> \in DOMAIN metadata
                       THEN metadata[<<"DATA Number">>].str ELSE "1"
        \* int(...)
        number_of_data_points ==
            CASE data_number = "0" -> 0
              [] data_number = "-2" -> -2
              [] data_number = "1" -> 1
        first_values == IF scan.data_lines # <<>> /\ LineIsFloat(scan.data_lines[1])
                        THEN <<FloatOf(scan.data_lines[1][1])>> ELSE <<>>
        \* "for _ in range(len(metadata) + 1): f.readline()"
        rest == SubSeq(file_lines, Cardinality(DOMAIN metadata) + 2, Len(file_lines))
        voltage_values == first_values \o arb_values(rest)
        \* current_chunk reaches chunk_size during the second pass
        n_full == IF arb_values(rest) = <<>> THEN 0 ELSE Len(voltage_values) \div chunk_size
        progress(c) ==
            Min2(90, 10 + TruncDiv(80 * (c * chunk_size), number_of_data_points))
        loop == concat([c \in 1..n_full |->
                    <<ChunkRead(chunk_size)>>
                    \o (IF progress_callback
                        THEN <<Callback(progress(c), "Reading values... (points)", FALSE)>>
                        ELSE <<>>)])
        before == <<Callback(0, "Reading metadata...", FALSE),
                    Callback(10, "Reading data values...", FALSE)>>
    IN IF progress_callback /\ n_full >= 1 /\ number_of_data_points = 0
       THEN Script(before \o <<ChunkRead(chunk_size)>>,
                   Raised("ZeroDivisionError", "division by zero"))
       ELSE Script(before
                   \o loop
                   \o <<Callback(90, "Creating DataFrame...", FALSE),
                        Callback(100, "Done!", FALSE)>>,
                   Returned(metadata,
                            DataFrame(<<"Second", "Value">>,
                                      [i \in 1..Len(voltage_values) |->
                                          <<Num(((i - 1) * 400) \div sample_rate),
                                            Num(voltage_values[i])>>])))

\* RigolArbCSVParser.parse
rigol_arb_parse(file_lines) == rigol_arb_call(file_lines, TRUE)

\* PyqtgraphCSVParser.parse
pyqtgraph_parse(file_lines) ==
    LET metadata == DictSet(EmptyDict, <<"format">>, StrVal("PyQtGraph Export"))
        first_line == IF file_lines = <<>> THEN EmptyLine ELSE file_lines[1]
        parts == LowerLine(first_line)
        has_xy_header == Len(parts) >= 2 /\ StartsWith(parts[1], "x") /\ StartsWith(parts[2], "y")
        file_size == file_size_of(file_lines)
        sample == SubSeq(file_lines, IF has_xy_header THEN 2 ELSE 1, Len(file_lines))
        \* max(1, int((file_size - (len(first_line) + 2)) / max(avg_line_len, 1)))
        estimated_total_rows ==
            IF Len(sample) > 0
            THEN Max2(1, TruncDiv((file_size - (LineBytes(first_line) - 1 + 2)) * Len(sample),
                                  SumBytes(sample)))
            ELSE 1
        before == <<Callback(0, "Analyzing file...", FALSE),
                    Callback(5, "Reading data...", FALSE)>>
        body == csv_body(file_lines, 0)
        rows == IF has_xy_header THEN Tail(body) ELSE body
        norm(chunk) ==
            dropna([i \in 1..Len(chunk) |-> <<to_numeric(chunk[i], 1), to_numeric(chunk[i], 2)>>], 2)
        n == n_chunks_read(Len(rows))
        kept(c) == Len(concat([j \in 1..c |-> norm(chunk_rows(rows, j))]))
        progress(c) ==
            Min2(95, 10 + TruncDiv(80 * kept(c), Max2(estimated_total_rows, 1)))
        loop == concat([c \in 1..n |->
                    <<ChunkRead(Len(chunk_rows(rows, c))),
                      Callback(progress(c), "Reading data... (approximately points)", FALSE)>>])
    IN Script(before \o loop
              \o <<Callback(97, "Combining data...", FALSE),
                   Callback(100, "Done! Total points", FALSE)>>,
              Returned(metadata,
                       DataFrame(<<"Second", "Value">>,
                                 concat([c \in 1..n |-> norm(chunk_rows(rows, c))]))))

\* parser.parse(file_name, update_progress), dispatched on the parser
parse(p, file_lines) ==
    CASE p = "Siglent" -> siglent_parse(file_lines)
      [] p = "Batronix" -> batronix_parse(file_lines)
      [] p = "BatronixDisplay" -> batronix_display_parse(file_lines)
      [] p = "Rigol" -> rigol_parse(file_lines)
      [] p = "RigolArb" -> rigol_arb_parse(file_lines)
      [] p = "Pyqtgraph" -> pyqtgraph_parse(file_lines)

\* first_lines = [f.readline() for _ in range(10)]: always FirstLineCount
\* entries, '' once the file is exhausted
FirstLineCount == 10
read_first_lines(file_lines) ==
    [i \in 1..FirstLineCount |-> IF i <= Len(file_lines) THEN file_lines[i] ELSE EmptyLine]

(***************************************************************************)
(* SpecSelect: the selection loop of load_csv on bounded first lines       *)
(***************************************************************************)
\* number of non-padding lines in the files tried
MaxFileLines == 3

\* the lines the files are made of
SampleLines ==
    { EmptyLine,
      <<"Record Length", "0.5">>,
      <<"Model Number", "abc">>,
      <<"Second", "Value">>,
      <<"time difference to trigger in s", "0.5">>,
      <<"time in s", "CH1 in V">>,
      <<"start time in s", "time difference in s">>,
      <<"Start Time in s", "time difference in s">>,
      <<"time in s", "CH1 minimum in V", "CH1 maximum in V">>,
      <<"time in s", "CH2 minimum in V", "CH1 maximum in V">>,
      <<"Time(s)", "CH1V">>,
      <<"RIGOL:CSV DATA FILE">>,
      <<"x0000", "y0000">>,
      <<"0.5", "-1.5">>,
      <<"0.5">>,
      <<"abc", "0.5">> }

FileLineLists ==
    UNION { [1..n -> SampleLines] : n \in 0..MaxFileLines }

InitSelect ==
    /\ \E fl \in FileLineLists : s_lines = read_first_lines(fl)
    /\ s_idx = 1
    /\ s_parser = "None"
    /\ s_done = FALSE
    /\ DecimateIdle
    /\ BinaryIdle
    /\ DetectIdle /\ ParseIdle
    /\ ViewerInit

\* one iteration of "for p in AVAILABLE_PARSERS" whose can_parse is true:
\* parser = p; break
SelectMatch ==
    /\ ~s_done
    /\ s_idx <= Len(AVAILABLE_PARSERS)
    /\ can_parse(AVAILABLE_PARSERS[s_idx], s_lines)
    /\ s_parser' = AVAILABLE_PARSERS[s_idx]
    /\ s_done' = TRUE
    /\ UNCHANGED <<s_lines, s_idx, dvars, vvars, bvars, avars, pvars>>

\* one iteration whose can_parse is false: go on with the next parser
SelectSkip ==
    /\ ~s_done
    /\ s_idx <= Len(AVAILABLE_PARSERS)
    /\ ~can_parse(AVAILABLE_PARSERS[s_idx], s_lines)
    /\ s_idx' = s_idx + 1
    /\ UNCHANGED <<s_lines, s_parser, s_done, dvars, vvars, bvars, avars, pvars>>

\* the loop ran off the end of the list: parser stays None
SelectNone ==
    /\ ~s_done
    /\ s_idx > Len(AVAILABLE_PARSERS)
    /\ s_done' = TRUE
    /\ UNCHANGED <<s_lines, s_idx, s_parser, dvars, vvars, bvars, avars, pvars>>

NextSelect == SelectMatch \/ SelectSkip \/ SelectNone

SpecSelect == InitSelect /\ [][NextSelect]_vars

(***************************************************************************)
(* OscilloscopeViewer.update_plot                                          *)
(***************************************************************************)
\* self.raw_data[name].values
column(data, name) ==
    [i \in 1..Len(data.rows) |-> data.rows[i][column_index(data.columns, name)]]

\* the value column update_plot picks, "" for None
y_col_of(data, channel) ==
    LET candidate == IF channel = None THEN "" ELSE value_ch_name(channel.ch)
        ch_cols == SelectSeq(data.columns, LAMBDA c : c \in {"Value_CH1", "Value_CH2"})
    IN IF candidate # "" /\ column_index(data.columns, candidate) # 0 THEN candidate
       ELSE IF column_index(data.columns, "Value") # 0 THEN "Value"
       ELSE IF ch_cols # <<>> THEN ch_cols[1]
       ELSE ""

\* self.metadata.get(key, [default])[0]; raised for the IndexError of an
\* empty list
unit_of(md, key, default) ==
    IF key \notin DOMAIN md THEN [raised |-> FALSE, unit |-> default]
    ELSE IF DOMAIN md[key] = {"list"} /\ md[key].list # <<>>
         THEN [raised |-> FALSE, unit |-> md[key].list[1]]
         ELSE [raised |-> TRUE, unit |-> ""]

\* f"Total points: {total:,}\nDisplayed points: {displayed:,}"
LabelPoints(total, displayed) == [total |-> total, displayed |-> displayed]

\* decimate_data on the .values of two columns; the columns of a series longer
\* than max_points hold numbers, which are compared as numbers
decimate_columns(x_col, y_col, max_points) ==
    IF Len(x_col) <= max_points
    THEN decimate_data(x_col, y_col, max_points)
    ELSE LET dec == decimate_data([i \in 1..Len(x_col) |-> x_col[i].f],
                                  [i \in 1..Len(y_col) |-> y_col[i].f], max_points)
         IN [x |-> [i \in 1..Len(dec.x) |-> Num(dec.x[i])],
             y |-> [i \in 1..Len(dec.y) |-> Num(dec.y[i])]]

\* an update_plot that decimates what the plot widget shows, once it shows a
\* curve
update_plot_from_shown(md, data, channel, max_points, shown, label) ==
    LET untouched == [raised |-> FALSE, plot |-> shown, label |-> label]
    IN IF data = None THEN untouched
       ELSE LET y_col == y_col_of(data, channel) IN
            IF y_col = "" THEN untouched
            ELSE IF column_index(data.columns, "Second") = 0
            THEN \* KeyError: 'Second'
                 [raised |-> TRUE, plot |-> shown, label |-> label]
            ELSE LET dec == IF shown = None
                            THEN decimate_columns(column(data, "Second"),
                                                  column(data, y_col), max_points)
                            ELSE decimate_columns(shown.x, shown.y, max_points)
                     x_unit == unit_of(md, <<"Horizontal Units">>, "s")
                     y_unit == unit_of(md, <<"Vertical Units">>, "V")
                     old_left == IF shown = None THEN "" ELSE shown.left
                     old_bottom == IF shown = None THEN "" ELSE shown.bottom
                 IN IF x_unit.raised \/ y_unit.raised
                    THEN [raised |-> TRUE,
                          plot |-> [x |-> dec.x, y |-> dec.y,
                                    left |-> old_left, bottom |-> old_bottom],
                          label |-> label]
                    ELSE [raised |-> FALSE,
                          plot |-> [x |-> dec.x, y |-> dec.y,
                                    left |-> y_unit.unit, bottom |-> x_unit.unit],
                          label |-> LabelPoints(Len(data.rows), Len(dec.x))]

\* update_plot on the given attributes: whether it raised, and what the plot
\* widget and the info label show afterwards
update_plot(md, data, channel, max_points, shown, label) ==
    LET untouched == [raised |-> FALSE, plot |-> shown, label |-> label]
    IN IF data = None THEN untouched
       ELSE LET y_col == y_col_of(data, channel) IN
            IF y_col = "" THEN untouched
            ELSE IF column_index(data.columns, "Second") = 0
            THEN \* KeyError: 'Second'
                 [raised |-> TRUE, plot |-> shown, label |-> label]
            ELSE LET dec == decimate_columns(column(data, "Second"), column(data, y_col),
                                             max_points)
                     x_unit == unit_of(md, <<"Horizontal Units">>, "s")
                     y_unit == unit_of(md, <<"Vertical Units">>, "V")
                     old_left == IF shown = None THEN "" ELSE shown.left
                     old_bottom == IF shown = None THEN "" ELSE shown.bottom
                 IN IF x_unit.raised \/ y_unit.raised
                    THEN [raised |-> TRUE,
                          plot |-> [x |-> dec.x, y |-> dec.y,
                                    left |-> old_left, bottom |-> old_bottom],
                          label |-> label]
                    ELSE [raised |-> FALSE,
                          plot |-> [x |-> dec.x, y |-> dec.y,
                                    left |-> y_unit.unit, bottom |-> x_unit.unit],
                          label |-> LabelPoints(Len(data.rows), Len(dec.x))]

\* channels = self.metadata.get('Channels'), <<>> when absent
channels_of(md) ==
    IF <<"Channels">> \in DOMAIN md THEN md[<<"Channels">>].ints ELSE <<>>

\* a selector that always starts on CH1
channel_setup_always_ch1(md) ==
    LET channels == channels_of(md)
    IN IF channels # <<>>
       THEN [combo |-> [items |-> channels, enabled |-> TRUE, current |-> 1],
             selected |-> Ch(1)]
       ELSE [combo |-> [items |-> <<>>, enabled |-> FALSE, current |-> 0],
             selected |-> None]

\* the channel selector and self.selected_channel as load_csv sets them up
channel_setup(md) ==
    LET channels == channels_of(md)
    IN IF channels # <<>>
       THEN LET first == IF \E k \in 1..Len(channels) : channels[k] = 1 THEN 1 ELSE channels[1]
            IN [combo |-> [items |-> channels, enabled |-> TRUE, current |-> first],
                selected |-> Ch(first)]
       ELSE [combo |-> [items |-> <<>>, enabled |-> FALSE, current |-> 0],
             selected |-> None]

\* the parser the lookup loop of load_csv ends with, "None" when none accepts
find_parser(first_lines) ==
    LET hits == { i \in 1..Len(AVAILABLE_PARSERS) : can_parse(AVAILABLE_PARSERS[i], first_lines) }
    IN IF hits = {} THEN "None" ELSE AVAILABLE_PARSERS[SetMin(hits)]

\* the except clauses of load_csv and load_binary: the outcome of the load for
\* an exception that reaches them
load_except_as_error(exc) == "error"
load_except(exc) == IF exc = "InterruptedError" THEN "cancelled" ELSE "error"

\* QMessageBox.critical(self, "Error", text + detail)
Critical(text, detail) == [title |-> "Error", text |-> text, detail |-> detail]

(***************************************************************************)
(* OscilloscopeViewer.load_binary: decoding                                *)
(***************************************************************************)
\* dtype_map and the item size of each entry
dtype_map ==
    [int8 |-> 1, uint8 |-> 1, int16 |-> 2, uint16 |-> 2,
     int32 |-> 4, uint32 |-> 4, float32 |-> 4, float64 |-> 8]

\* the bytes of one item, the most significant first
significant_first(bs, endian) ==
    IF endian = "<" THEN [i \in 1..Len(bs) |-> bs[Len(bs) + 1 - i]] ELSE bs

\* one item from its bytes in file order: the integer types of at most two
\* bytes become numbers; the wider types are kept as their bits, the most
\* significant byte first
decode_item(bs, dtype, endian) ==
    LET msb == significant_first(bs, endian)
        unsigned == IF Len(msb) = 1 THEN msb[1] ELSE 256 * msb[1] + msb[2]
        half == IF Len(msb) = 1 THEN 128 ELSE 32768
    IN IF Len(bs) > 2
       THEN [dtype |-> dtype, bits |-> msb]
       ELSE IF dtype \in {"int8", "int16"} /\ unsigned >= half
       THEN unsigned - 2 * half
       ELSE unsigned

\* f.seek(eff_offset); np.fromfile(f, dtype=np_dtype, count=count)
fromfile(bytes, eff_offset, dtype, endian, count) ==
    LET w == dtype_map[dtype]
        avail == IF eff_offset >= Len(bytes) THEN 0 ELSE (Len(bytes) - eff_offset) \div w
        n == Min2(count, avail)
    IN [i \in 1..n |->
           decode_item(SubSeq(bytes, eff_offset + (i - 1) * w + 1, eff_offset + i * w),
                       dtype, endian)]

\* the offset moved down to a sample boundary
align_offset_down(offset, sample_bytes) ==
    (offset \div sample_bytes) * sample_bytes

\* the offset moved up to a sample boundary
align_offset(offset, sample_bytes) ==
    ((offset + sample_bytes - 1) \div sample_bytes) * sample_bytes

\* the channels stored one after the other instead of interleaved
deinterleave_planar(data, ch_count, ch_index) ==
    LET total_samples == Len(data) \div ch_count
    IN [i \in 1..total_samples |-> data[ch_index * total_samples + i]]

\* data[: total_samples * ch_count].reshape(total_samples, ch_count)[:, ch_index]
deinterleave(data, ch_count, ch_index) ==
    LET total_samples == Len(data) \div ch_count
    IN [i \in 1..total_samples |-> data[(i - 1) * ch_count + ch_index + 1]]

\* data.astype(np.float64) * scale + voffset for one item, in twentieths; an
\* item kept as its bits stays an expression over those bits
scale_item(raw, dtype, scale, voffset) ==
    IF dtype_map[dtype] > 2
    THEN [raw |-> raw, scale |-> scale, v_offset |-> voffset]
    ELSE (raw * scale + voffset) * 20

\* progress.setValue(v); progress.setLabelText(message)
SetValue(v, message) == [op |-> "setvalue", current |-> v, message |-> message]

\* load_binary from the layout to the read: the offsets, the lengths, the item
\* count and the items np.fromfile returns
load_binary_read(bytes, params) ==
    LET endian_char == IF params.endian = "Little" THEN "<" ELSE ">"
        itemsize == dtype_map[params.dtype]
        offset == params.offset_bytes
        length_bytes == params.length_bytes
        ch_count == Max2(1, params.channel_count)
        sample_bytes == itemsize * ch_count
        eff_offset == align_offset(offset, sample_bytes)
        eff_length_bytes ==
            IF length_bytes > 0
            THEN Max2(0, length_bytes - Max2(0, eff_offset - offset))
            ELSE 0
        count == IF eff_length_bytes > 0
                 THEN eff_length_bytes \div itemsize
                 ELSE Max2(0, Len(bytes) - eff_offset) \div itemsize
    IN [itemsize |-> itemsize, ch_count |-> ch_count, sample_bytes |-> sample_bytes,
        offset |-> offset, eff_offset |-> eff_offset,
        eff_length_bytes |-> eff_length_bytes, count |-> count,
        data |-> fromfile(bytes, eff_offset, params.dtype, endian_char, count)]

\* the body of load_binary's try block up to the DataFrame and the metadata:
\* the setValue calls it makes when nobody cancels, and how it ends
load_binary_call(bytes, params) ==
    IF params.sample_rate_hz <= 0
    THEN Script(<<>>, Raised("ValueError", "Sample rate must be > 0"))
    ELSE IF params.dtype \notin DOMAIN dtype_map
    THEN Script(<<>>, Raised("ValueError", "Unsupported data type"))
    ELSE
    LET read == load_binary_read(bytes, params)
        data == read.data
        ch_count == read.ch_count
        ch_index == params.channel_index
        total_samples == Len(data) \div ch_count
        channel == IF ch_count > 1
                   THEN deinterleave(data, ch_count, ch_index)
                   ELSE data
        sr == params.sample_rate_hz
        df == DataFrame(<<"Second", "Value">>,
                        [i \in 1..Len(channel) |->
                            <<Num(((i - 1) * 20) \div sr),
                              Num(scale_item(channel[i], params.dtype,
                                             params.scale_v_per_unit, params.v_offset))>>])
        md == (<<"format">> :> StrVal("Binary"))
              @@ (<<"Horizontal Units">> :> StrList(<<"s">>))
              @@ (<<"Vertical Units">> :> StrList(<<"V">>))
              @@ (<<"Sample Rate (Hz)">> :> NumList(<<sr * 20>>))
              @@ (<<"Endian">> :> StrList(<<params.endian>>))
              @@ (<<"Data Type">> :> StrList(<<params.dtype>>))
              @@ (<<"Requested Header Offset (bytes)">> :> IntList(<<read.offset>>))
              @@ (<<"Effective Header Offset (bytes)">> :> IntList(<<read.eff_offset>>))
              @@ (<<"Header Alignment (bytes)">> :> IntList(<<read.sample_bytes>>))
              @@ (<<"Data Length (bytes)">> :>
                     IntList(<<IF read.eff_length_bytes > 0 THEN read.eff_length_bytes
                               ELSE Len(bytes) - read.eff_offset>>))
        reading == <<SetValue(5, "Reading file...")>>
        processing == reading \o <<SetValue(30, "Processing channels...")>>
    IN IF data = <<>>
       THEN Script(reading,
                   Raised("ValueError", "No data samples found with the given settings"))
       ELSE IF ch_index < 0 \/ ch_index >= ch_count
       THEN Script(processing, Raised("ValueError", "Channel index out of range"))
       ELSE IF ch_count > 1 /\ total_samples = 0
       THEN Script(processing,
                   Raised("ValueError", "Not enough data for the specified channel count"))
       ELSE Script(processing \o <<SetValue(60, "Building time axis..."),
                                   SetValue(80, "Creating DataFrame...")>>,
                   Returned(md, df))

\* BinaryImportDialog._read_channel_samples(start_offset, items_wanted): the
\* offset it seeks to and the samples of the chosen channel
read_channel_samples(bytes, params, start_offset, items_wanted) ==
    LET endian_char == IF params.endian = "Little" THEN "<" ELSE ">"
        ch_count == Max2(1, params.channel_count)
        ch_index == Min2(Max2(0, params.channel_index), ch_count - 1)
        sample_bytes == dtype_map[params.dtype] * ch_count
        eff_offset == align_offset(start_offset, sample_bytes)
        total_items == items_wanted * ch_count
        raw == fromfile(bytes, eff_offset, params.dtype, endian_char, total_items)
    IN [eff_offset |-> eff_offset,
        window |-> IF ch_count > 1 THEN deinterleave(raw, ch_count, ch_index) ELSE raw]

(***************************************************************************)
(* The files and the import settings the loads are run on                  *)
(***************************************************************************)
Row1 == <<"0.5">>
Row2 == <<"0.5", "-1.5">>
BadRow2 == <<"abc", "0.5">>
Row3 == <<"0.5", "-1.5", "0.5">>
BadRow3 == <<"abc", "0.5", "0.5">>

\* what precedes the rows of a two-column file
Preambles2 ==
    { << <<"Record Length", "0.5">>, <<"Model Number", "abc">>, <<"Second", "Value">> >>,
      << <<"Record Length", "0.5">>, <<"Model Number", "abc">> >>,
      << <<"time difference to trigger in s", "0.5">>, <<"time in s", "CH1 in V">> >>,
      << <<"time difference to trigger in s", "0.5">> >>,
      << <<"Time(s)", "CH1V">> >>,
      << <<"Rel Time(s)", "CH1V">> >>,
      << <<"x0000", "y0000">> >>,
      << <<"Model Number", "abc">> >>,
      << >> }

Payloads2 == { <<>>, <<Row2>>, <<Row2, Row2, Row2>>, <<Row2, BadRow2, Row2>> }

DisplayTiming == << <<"start time in s", "time difference in s">>, Row2 >>

DisplayFiles ==
    { DisplayTiming \o <<h>> \o p :
        h \in { <<"time in s", "CH1 minimum in V", "CH1 maximum in V">>,
                <<"time in s", "CH2 minimum in V", "CH2 maximum in V">> },
        p \in { <<>>, <<Row3>>, <<Row3, BadRow3, Row3>> } }
    \cup { DisplayTiming \o << <<"time in s", "CH2 minimum in V", "CH1 maximum in V">>, Row3 >>,
           DisplayTiming \o << <<"time in s", "CH1 minimum in V", "CH1 maximum in V",
                                 "CH2 minimum in V", "CH2 maximum in V">>,
                               <<"0.5", "-1.5", "0.5", "0.5", "0.5">> >>,
           DisplayTiming \o << <<"time in s", "CH2 minimum in V", "CH2 maximum in V",
                                 "CH1 minimum in V", "CH1 maximum in V">>,
                               <<"0.5", "-1.5", "-1.5", "0.5", "0.5">> >>,
           DisplayTiming \o << <<"time in s", "CH1 minimum in V", "CH2 minimum in V",
                                 "CH2 maximum in V">>,
                               <<"0.5", "0.5", "-1.5", "0.5">> >> }

RigolArbFiles ==
    { << <<"RIGOL:CSV DATA FILE">> >> \o p : p \in { <<>>, <<Row1>>, <<Row1, Row1, Row1>> } }

\* a file whose 'Time(s),CH1V' line is not its first line
LateHeaderFiles == { << <<"Model Number", "abc">>, <<"Time(s)", "CH1V">> >> }

CsvFiles ==
    { h \o p : h \in Preambles2, p \in Payloads2 } \cup DisplayFiles \cup RigolArbFiles
    \cup LateHeaderFiles

\* binary files, as their bytes
BinaryFiles == { <<1, 2, 3>>, <<1, 2, 255, 255, 5>> }

\* what BinaryImportDialog.get_params can return, with offset_bytes as it is
\* after the optional auto-detection
BinaryParams ==
    { p \in [endian : {"Little", "Big"}, dtype : {"int16"},
             offset_bytes : {0, 3}, length_bytes : {0, 3},
             sample_rate_hz : {1}, scale_v_per_unit : {1}, v_offset : {0},
             channel_count : {1, 2}, channel_index : {0, 1}] :
        p.channel_index <= Max2(0, p.channel_count - 1) }

\* values of the max-points spin box
SpinValues == {100, 10000}

(***************************************************************************)
(* OscilloscopeViewer.load_csv                                             *)
(***************************************************************************)
\* what every load does first: a fresh progress dialog, nothing emitted yet,
\* and the attributes as they are now kept for comparison
BeginLoad(kind, file) ==
    /\ l_file' = file
    /\ l_pos' = 0
    /\ l_canceled' = FALSE
    /\ l_events' = <<>>
    /\ h_pre' = [metadata |-> self_metadata, raw_data |-> self_raw_data,
                 selected_channel |-> self_selected_channel]
    /\ h_kind' = kind
    /\ h_cb_raised' = FALSE
    /\ h_parse_outcome' = "none"
    /\ l_reader' = "none"

\* load_csv on a file no parser accepts: the error box with the format names,
\* then return
load_csv_unsupported ==
    /\ l_pc = "idle"
    /\ \E file \in CsvFiles :
          /\ find_parser(read_first_lines(file)) = "None"
          /\ BeginLoad("csv", file)
    /\ l_parser' = "None"
    /\ l_script' = NoScript
    /\ l_parse_calls' = 0
    /\ message_box' = Critical("Unsupported CSV format. Currently supported formats:",
                               AVAILABLE_PARSERS)
    /\ h_outcome' = "unsupported"
    /\ l_pc' = "done"
    /\ UNCHANGED <<state, self_decimation_factor, self_data_info_label,
                   self_channel_combo, self_plot_widget, plotvars, dvars, svars, bvars, avars, pvars>>

\* load_csv on a file some parser accepts, up to the call of parser.parse
load_csv_parse ==
    /\ l_pc = "idle"
    /\ \E file \in CsvFiles :
          LET parser == find_parser(read_first_lines(file))
          IN /\ parser # "None"
             /\ BeginLoad("csv", file)
             /\ l_parser' = parser
             /\ l_script' = parse(parser, file)
    /\ l_pc' = "parsing"
    /\ l_parse_calls' = 1
    /\ message_box' = None
    /\ h_outcome' = "none"
    /\ UNCHANGED <<state, self_decimation_factor, self_data_info_label,
                   self_channel_combo, self_plot_widget, plotvars, dvars, svars, bvars, avars, pvars>>

\* the step parse is about to take
NextStep == l_script.steps[l_pos + 1]

\* parse is inside the body of its "for chunk in ..." loop: the step it took
\* last is the read of a chunk
InLoopBody == l_pos >= 1 /\ l_script.steps[l_pos].op = "chunk"

\* the reader once parse has gone on past the end of its loop: iterating a
\* pandas reader to exhaustion closes it, and the Rigol Arb loop sits in a
\* "with open" block
reader_after_loop == IF l_reader = "open" /\ ~InLoopBody THEN "closed" ELSE l_reader

\* the states the reader can be in once an exception has left parse.  A failing
\* read closes the pandas reader and a "with" block closes its file; an
\* exception raised by the body of a "for chunk in pd.read_csv(...)" loop leaves
\* the reader to the garbage collector, which may or may not have closed it.
readers_after_raise ==
    IF l_reader = "open" /\ InLoopBody /\ l_parser # "RigolArb"
    THEN {"open", "closed"}
    ELSE IF l_reader = "open" THEN {"closed"} ELSE {l_reader}

\* update_progress called by parse while the dialog is not cancelled: the label
\* and the value are set, events are processed, and the user may press Cancel
\* unless the value reached the maximum, where the dialog resets and closes
update_progress ==
    /\ l_pc = "parsing"
    /\ l_pos < Len(l_script.steps)
    /\ NextStep.op = "callback"
    /\ ~l_canceled
    /\ LET value == (NextStep.current * 100) \div NextStep.total
       IN /\ l_events' = Append(l_events, value)
          /\ \E click \in BOOLEAN : l_canceled' = (click /\ value < 100)
    /\ l_pos' = l_pos + 1
    /\ l_reader' = reader_after_loop
    /\ UNCHANGED <<l_pc, l_parser, l_script, l_file, l_parse_calls, state, widgets,
                   hvars, plotvars, dvars, svars, bvars, avars, pvars>>

\* update_progress called by parse after Cancel was pressed: it raises
\* InterruptedError.  Raised inside a guarded block the exception is replaced
\* by a ValueError, which load_csv reports as a parse failure; otherwise it
\* leaves parse and load_csv shows "Loading cancelled".
update_progress_cancelled ==
    /\ l_pc = "parsing"
    /\ l_pos < Len(l_script.steps)
    /\ NextStep.op = "callback"
    /\ l_canceled
    /\ h_cb_raised' = TRUE
    /\ l_reader' \in readers_after_raise
    /\ LET exc == IF NextStep.guarded THEN "ValueError" ELSE "InterruptedError"
       IN /\ h_parse_outcome' = IF exc = "InterruptedError" THEN "cancelled" ELSE "error"
          /\ h_outcome' = load_except(exc)
          /\ IF load_except(exc) = "cancelled"
             THEN /\ self_data_info_label' = Label("Loading cancelled")
                  /\ UNCHANGED message_box
             ELSE /\ message_box' = Critical("Failed to parse CSV file: ",
                                             <<"Error reading Batronix CSV data: ",
                                               "File loading cancelled by user">>)
                  /\ UNCHANGED self_data_info_label
    /\ l_pc' = "done"
    /\ UNCHANGED <<l_parser, l_script, l_file, l_pos, l_canceled, l_events, l_parse_calls,
                   state, self_decimation_factor, self_channel_combo, self_plot_widget,
                   h_pre, h_kind, plotvars, dvars, svars, bvars, avars, pvars>>

\* the chunked reader hands parse the next chunk
read_chunk ==
    /\ l_pc = "parsing"
    /\ l_pos < Len(l_script.steps)
    /\ NextStep.op = "chunk"
    /\ l_pos' = l_pos + 1
    /\ l_reader' = "open"
    /\ UNCHANGED <<l_pc, l_parser, l_script, l_file, l_canceled, l_events, l_parse_calls,
                   state, widgets, hvars, plotvars, dvars, svars, bvars, avars, pvars>>

\* parse returns (metadata, data): load_csv stores both, sets up the label and
\* the channel selector and calls update_plot; an exception of update_plot is
\* reported by the "except Exception" clause
load_csv_returned ==
    /\ l_pc = "parsing"
    /\ l_pos = Len(l_script.steps)
    /\ l_script.result.kind = "ok"
    /\ LET md == l_script.result.metadata
           data == l_script.result.data
           setup == channel_setup(md)
           plotted == update_plot(md, data, setup.selected, self_decimation_factor,
                                  self_plot_widget,
                                  LabelPoints(Len(data.rows), self_decimation_factor))
       IN /\ self_metadata' = md
          /\ self_raw_data' = data
          /\ self_channel_combo' = setup.combo
          /\ self_selected_channel' = setup.selected
          /\ self_plot_widget' = plotted.plot
          /\ self_data_info_label' = plotted.label
          /\ IF plotted.raised
             THEN /\ message_box' = Critical("Failed to parse CSV file: ", <<"'Second'">>)
                  /\ h_outcome' = load_except("KeyError")
             ELSE /\ UNCHANGED message_box
                  /\ h_outcome' = "ok"
    /\ h_parse_outcome' = "returned"
    /\ l_reader' = reader_after_loop
    /\ l_pc' = "done"
    /\ UNCHANGED <<l_parser, l_script, l_file, l_pos, l_canceled, l_events, l_parse_calls,
                   self_decimation_factor, h_pre, h_kind, h_cb_raised, plotvars, dvars, svars, bvars, avars, pvars>>

\* parse raises an exception of its own: the "except Exception" clause
load_csv_raised ==
    /\ l_pc = "parsing"
    /\ l_pos = Len(l_script.steps)
    /\ l_script.result.kind = "error"
    /\ message_box' = Critical("Failed to parse CSV file: ", <<l_script.result.message>>)
    /\ h_parse_outcome' = "error"
    /\ h_outcome' = load_except(l_script.result.exc)
    /\ l_reader' \in readers_after_raise
    /\ l_pc' = "done"
    /\ UNCHANGED <<l_parser, l_script, l_file, l_pos, l_canceled, l_events, l_parse_calls,
                   state, self_decimation_factor, self_data_info_label, self_channel_combo,
                   self_plot_widget, h_pre, h_kind, h_cb_raised, plotvars, dvars, svars, bvars, avars, pvars>>

(***************************************************************************)
(* OscilloscopeViewer.load_binary                                          *)
(***************************************************************************)
\* load_binary from the file dialog to the start of the try block, with the
\* settings the import dialog returned
load_binary_begin ==
    /\ l_pc = "idle"
    /\ \E bytes \in BinaryFiles, params \in BinaryParams :
          /\ BeginLoad("binary", bytes)
          /\ l_script' = load_binary_call(bytes, params)
    /\ l_pc' = "binary"
    /\ l_parser' = "None"
    /\ l_parse_calls' = 0
    /\ message_box' = None
    /\ h_outcome' = "none"
    /\ UNCHANGED <<state, self_decimation_factor, self_data_info_label,
                   self_channel_combo, self_plot_widget, plotvars, dvars, svars, bvars, avars, pvars>>

\* the data file of load_binary once setValue(v) is reached: the "with open"
\* block around np.fromfile lies between setValue(5) and setValue(30)
binary_reader_at(v) == IF v >= 30 THEN "closed" ELSE l_reader

\* progress.setValue(v) during which Cancel is not pressed: the check of
\* wasCanceled() that follows lets the load go on
binary_set_value ==
    /\ l_pc = "binary"
    /\ l_pos < Len(l_script.steps)
    /\ l_events' = Append(l_events, NextStep.current)
    /\ l_pos' = l_pos + 1
    /\ l_reader' = binary_reader_at(NextStep.current)
    /\ UNCHANGED <<l_pc, l_parser, l_script, l_file, l_canceled, l_parse_calls, state,
                   widgets, hvars, plotvars, dvars, svars, bvars, avars, pvars>>

\* progress.setValue(v) during which Cancel is pressed: the check that follows
\* raises InterruptedError and load_binary shows "Loading cancelled"
binary_set_value_cancelled ==
    /\ l_pc = "binary"
    /\ l_pos < Len(l_script.steps)
    /\ l_events' = Append(l_events, NextStep.current)
    /\ l_canceled' = TRUE
    /\ l_reader' = binary_reader_at(NextStep.current)
    /\ h_outcome' = load_except("InterruptedError")
    /\ self_data_info_label' = Label("Loading cancelled")
    /\ l_pc' = "done"
    /\ UNCHANGED <<l_parser, l_script, l_file, l_pos, l_parse_calls, state,
                   self_decimation_factor, self_channel_combo, self_plot_widget,
                   message_box, h_pre, h_kind, h_cb_raised, h_parse_outcome, plotvars, dvars, svars, bvars, avars, pvars>>

\* the DataFrame and the metadata are built: load_binary stores both, disables
\* the channel selector, calls update_plot and sets the progress to 100
load_binary_loaded ==
    /\ l_pc = "binary"
    /\ l_pos = Len(l_script.steps)
    /\ l_script.result.kind = "ok"
    /\ LET md == l_script.result.metadata
           data == l_script.result.data
           plotted == update_plot(md, data, None, self_decimation_factor,
                                  self_plot_widget,
                                  LabelPoints(Len(data.rows), self_decimation_factor))
       IN /\ self_metadata' = md
          /\ self_raw_data' = data
          /\ self_channel_combo' = [items |-> <<>>, enabled |-> FALSE, current |-> 0]
          /\ self_selected_channel' = None
          /\ self_plot_widget' = plotted.plot
          /\ self_data_info_label' = plotted.label
          /\ IF plotted.raised
             THEN /\ message_box' = Critical("Failed to parse binary file: ", <<"'Second'">>)
                  /\ h_outcome' = load_except("KeyError")
                  /\ UNCHANGED l_events
             ELSE /\ UNCHANGED message_box
                  /\ h_outcome' = "ok"
                  /\ l_events' = Append(l_events, 100)
    /\ l_pc' = "done"
    /\ UNCHANGED <<l_parser, l_script, l_file, l_pos, l_canceled, l_parse_calls, l_reader,
                   self_decimation_factor, h_pre, h_kind, h_cb_raised, h_parse_outcome,
                   plotvars, dvars, svars, bvars, avars, pvars>>

\* a ValueError of the try block: the "except Exception" clause
load_binary_raised ==
    /\ l_pc = "binary"
    /\ l_pos = Len(l_script.steps)
    /\ l_script.result.kind = "error"
    /\ message_box' = Critical("Failed to parse binary file: ", <<l_script.result.message>>)
    /\ h_outcome' = load_except(l_script.result.exc)
    /\ l_reader' = IF l_pos >= 1 THEN "closed" ELSE l_reader
    /\ l_pc' = "done"
    /\ UNCHANGED <<l_parser, l_script, l_file, l_pos, l_canceled, l_events, l_parse_calls,
                   state, self_decimation_factor, self_data_info_label, self_channel_combo,
                   self_plot_widget, h_pre, h_kind, h_cb_raised, h_parse_outcome,
                   plotvars, dvars, svars, bvars, avars, pvars>>

\* the load handler returns to the event loop: the progress dialog is closed
\* and gone, the error box is dismissed
load_returns ==
    /\ l_pc = "done"
    /\ l_pc' = "idle"
    /\ l_file' = <<>>
    /\ l_parser' = "None"
    /\ l_script' = NoScript
    /\ l_pos' = 0
    /\ l_canceled' = FALSE
    /\ l_events' = <<>>
    /\ l_parse_calls' = 0
    /\ l_reader' = "none"
    /\ message_box' = None
    /\ h_pre' = [metadata |-> EmptyDict, raw_data |-> None, selected_channel |-> None]
    /\ h_kind' = "none"
    /\ h_cb_raised' = FALSE
    /\ h_parse_outcome' = "none"
    /\ h_outcome' = "none"
    /\ UNCHANGED <<state, self_decimation_factor, self_data_info_label,
                   self_channel_combo, self_plot_widget, plotvars, dvars, svars, bvars, avars, pvars>>

(***************************************************************************)
(* The other handlers that re-plot                                         *)
(***************************************************************************)
\* update_decimation(value), the valueChanged slot of the max-points spin box
update_decimation ==
    /\ l_pc = "idle"
    /\ \E value \in SpinValues \ {self_decimation_factor} :
          /\ self_decimation_factor' = value
          /\ LET plotted == update_plot(self_metadata, self_raw_data, self_selected_channel,
                                        value, self_plot_widget, self_data_info_label)
             IN /\ self_plot_widget' = plotted.plot
                /\ self_data_info_label' = plotted.label
    /\ UNCHANGED <<state, self_channel_combo, message_box, lvars, hvars, plotvars, dvars, svars, bvars, avars, pvars>>

\* on_channel_changed(text), the currentTextChanged slot of the channel
\* selector, for the item "CH<ch>" the user picks
on_channel_changed ==
    /\ l_pc = "idle"
    /\ self_channel_combo.enabled
    /\ \E k \in 1..Len(self_channel_combo.items) :
          LET ch == self_channel_combo.items[k]
              plotted == update_plot(self_metadata, self_raw_data, Ch(ch),
                                     self_decimation_factor, self_plot_widget,
                                     self_data_info_label)
          IN /\ ch # self_channel_combo.current
             /\ self_channel_combo' = [self_channel_combo EXCEPT !.current = ch]
             /\ self_selected_channel' = Ch(ch)
             /\ self_plot_widget' = plotted.plot
             /\ self_data_info_label' = plotted.label
    /\ UNCHANGED <<self_metadata, self_raw_data, self_decimation_factor, message_box,
                   lvars, hvars, plotvars, dvars, svars, bvars, avars, pvars>>

\* the view ranges a zoom or a pan leads to, in twentieths
ViewRanges ==
    { [x |-> <<0, 20>>, y |-> <<0, 20>>], [x |-> <<20, 60>>, y |-> <<-20, 20>>] }

\* a handler can be dispatched: from the event loop, or from the event
\* processing of a progress update of the running load
EventsProcessed ==
    l_pc = "idle" \/ (l_pc \in {"parsing", "binary"} /\ l_events # <<>>)

\* on_view_changed(view_box, range_), the sigRangeChanged slot of the view box
on_view_changed ==
    /\ EventsProcessed
    /\ \E range_ \in ViewRanges \ {view_range} : view_range' = range_
    /\ LET plotted == update_plot(self_metadata, self_raw_data, self_selected_channel,
                                  self_decimation_factor, self_plot_widget,
                                  self_data_info_label)
       IN /\ self_plot_widget' = plotted.plot
          /\ self_data_info_label' = plotted.label
    /\ UNCHANGED <<state, self_decimation_factor, self_channel_combo, message_box,
                   self_dark_mode, self_vertical_cursors, self_horizontal_cursors,
                   lvars, hvars, dvars, svars, bvars, avars, pvars>>

\* toggle_dark_mode, the clicked slot of the dark mode button
toggle_dark_mode ==
    /\ l_pc = "idle"
    /\ self_dark_mode' = ~self_dark_mode
    /\ LET plotted == update_plot(self_metadata, self_raw_data, self_selected_channel,
                                  self_decimation_factor, self_plot_widget,
                                  self_data_info_label)
       IN /\ self_plot_widget' = plotted.plot
          /\ self_data_info_label' = plotted.label
    /\ UNCHANGED <<state, self_decimation_factor, self_channel_combo, message_box,
                   self_vertical_cursors, self_horizontal_cursors, view_range,
                   lvars, hvars, dvars, svars, bvars, avars, pvars>>

\* the position of a new cursor: the centre of the view, 0 with no data
cursor_pos(range) ==
    IF self_raw_data = None THEN 0 ELSE (range[1] + range[2]) \div 2

\* add_vertical_cursor: at most two cursors
add_vertical_cursor ==
    /\ l_pc = "idle"
    /\ self_vertical_cursors' =
           IF Len(self_vertical_cursors) >= 2
           THEN self_vertical_cursors
           ELSE Append(self_vertical_cursors, cursor_pos(view_range.x))
    /\ UNCHANGED <<state, widgets, self_dark_mode, self_horizontal_cursors, view_range,
                   lvars, hvars, dvars, svars, bvars, avars, pvars>>

\* add_horizontal_cursor: at most two cursors
add_horizontal_cursor ==
    /\ l_pc = "idle"
    /\ self_horizontal_cursors' =
           IF Len(self_horizontal_cursors) >= 2
           THEN self_horizontal_cursors
           ELSE Append(self_horizontal_cursors, cursor_pos(view_range.y))
    /\ UNCHANGED <<state, widgets, self_dark_mode, self_vertical_cursors, view_range,
                   lvars, hvars, dvars, svars, bvars, avars, pvars>>

\* clear_cursors
clear_cursors ==
    /\ l_pc = "idle"
    /\ self_vertical_cursors' = <<>>
    /\ self_horizontal_cursors' = <<>>
    /\ UNCHANGED <<state, widgets, self_dark_mode, view_range,
                   lvars, hvars, dvars, svars, bvars, avars, pvars>>

(***************************************************************************)
(* The viewer                                                              *)
(***************************************************************************)
Init == DecimateIdle /\ SelectIdle /\ BinaryIdle /\ DetectIdle /\ ParseIdle /\ ViewerInit

Next ==
    \/ load_csv_unsupported
    \/ load_csv_parse
    \/ update_progress
    \/ update_progress_cancelled
    \/ read_chunk
    \/ load_csv_returned
    \/ load_csv_raised
    \/ load_binary_begin
    \/ binary_set_value
    \/ binary_set_value_cancelled
    \/ load_binary_loaded
    \/ load_binary_raised
    \/ load_returns
    \/ update_decimation
    \/ on_channel_changed

Spec == Init /\ [][Next]_vars

\* the viewer with the view-change handler, which the event processing of a
\* progress update can dispatch while a load is running
NextView == Next \/ on_view_changed

SpecView == Init /\ [][NextView]_vars

(***************************************************************************)
(* The handlers that re-plot, on a viewer that has loaded a file           *)
(* (SpecReplot)                                                            *)
(***************************************************************************)
\* length of the longest loaded binary file; the shortest has one sample more
\* than the smallest max-points setting
MaxLongLen == 103

\* binary files of more samples than the smallest max-points setting: a
\* pattern of small values, and the same with a spike as its last sample
LongFiles ==
    UNION { { [i \in 1..n |-> (i * i) % 5],
              [i \in 1..n |-> IF i = n THEN 200 ELSE (i * i) % 5] } : n \in 101..MaxLongLen }

\* the import settings the long files are loaded with
LongParams ==
    [endian |-> "Little", dtype |-> "uint8", offset_bytes |-> 0, length_bytes |-> 0,
     sample_rate_hz |-> 1, scale_v_per_unit |-> 1, v_offset |-> 0,
     channel_count |-> 1, channel_index |-> 0]

\* the attributes and the widgets after a load into a fresh viewer has stored
\* (md, data) and set up the selector as setup
LoadedFresh(md, data, setup) ==
    LET plotted == update_plot(md, data, setup.selected, 10000, None,
                               LabelPoints(Len(data.rows), 10000))
    IN /\ self_metadata = md
       /\ self_raw_data = data
       /\ self_channel_combo = setup.combo
       /\ self_selected_channel = setup.selected
       /\ self_plot_widget = plotted.plot
       /\ self_data_info_label = plotted.label

\* a viewer back in the event loop: fresh, after a load_csv whose parse
\* returned, or after a load_binary of a long file
InitReplot ==
    /\ DecimateIdle /\ SelectIdle /\ BinaryIdle /\ DetectIdle /\ ParseIdle
    /\ self_decimation_factor = 10000
    /\ self_dark_mode = FALSE
    /\ self_vertical_cursors = <<>>
    /\ self_horizontal_cursors = <<>>
    /\ view_range = [x |-> <<0, 20>>, y |-> <<0, 20>>]
    /\ message_box = None
    /\ l_pc = "idle"
    /\ l_file = <<>>
    /\ l_parser = "None"
    /\ l_script = NoScript
    /\ l_pos = 0
    /\ l_canceled = FALSE
    /\ l_events = <<>>
    /\ l_parse_calls = 0
    /\ l_reader = "none"
    /\ h_pre = [metadata |-> EmptyDict, raw_data |-> None, selected_channel |-> None]
    /\ h_kind = "none"
    /\ h_cb_raised = FALSE
    /\ h_parse_outcome = "none"
    /\ h_outcome = "none"
    /\ \/ /\ self_metadata = EmptyDict
          /\ self_raw_data = None
          /\ self_selected_channel = None
          /\ self_data_info_label = Label("No data loaded")
          /\ self_channel_combo = [items |-> <<>>, enabled |-> FALSE, current |-> 0]
          /\ self_plot_widget = None
       \/ \E file \in CsvFiles :
             LET parser == find_parser(read_first_lines(file))
                 result == parse(parser, file).result
             IN /\ parser # "None"
                /\ result.kind = "ok"
                /\ LoadedFresh(result.metadata, result.data, channel_setup(result.metadata))
       \/ \E bytes \in LongFiles :
             LET result == load_binary_call(bytes, LongParams).result
             IN LoadedFresh(result.metadata, result.data,
                            [combo |-> [items |-> <<>>, enabled |-> FALSE, current |-> 0],
                             selected |-> None])

NextReplot ==
    \/ update_decimation
    \/ on_channel_changed
    \/ on_view_changed
    \/ toggle_dark_mode
    \/ add_vertical_cursor
    \/ add_horizontal_cursor
    \/ clear_cursors

SpecReplot == InitReplot /\ [][NextReplot]_vars

(***************************************************************************)
(* parse with and without a progress callback, on bounded files            *)
(* (SpecParse)                                                             *)
(***************************************************************************)
\* parser.parse(file_name, progress_callback) with a callback that never
\* raises, or parser.parse(file_name). Without a callback no progress value
\* is computed and no callback step is taken; the progress values of the
\* Siglent, Rigol, Batronix Display and PyQtGraph parsers are computed from
\* divisors that are never zero (the size of a file that is not empty,
\* max(estimated_total_rows, 1)), so their calls end alike
parse_call(p, file_lines, progress_callback) ==
    LET script == CASE p = "Batronix" -> batronix_call(file_lines, progress_callback)
                    [] p = "RigolArb" -> rigol_arb_call(file_lines, progress_callback)
                    [] OTHER -> parse(p, file_lines)
    IN IF progress_callback
       THEN script
       ELSE Script(SelectSeq(script.steps, LAMBDA st : st.op # "callback"), script.result)

\* Rigol Arb files: the marker line, a preamble and a payload
ArbPreambles ==
    { <<>>,
      << <<"Sample Rate:0.5">> >>,
      << <<"DATA Number:0">> >>,
      << <<"DATA Number:-2">> >>,
      << <<"Sample Rate:0.5">>, <<"DATA Number:0">> >>,
      << EmptyLine >>,
      << <<"abc">> >>,
      << <<"Sample Rate:0.5">>, EmptyLine >> }

ArbPayloads ==
    { <<>>,
      << Row1 >>,
      << Row1, Row1 >>,
      << Row1, Row1, Row1 >>,
      << Row1, <<"-1.5">>, Row1 >>,
      << <<"-1.5">>, Row1 >>,
      << Row1, EmptyLine, Row1 >> }

ArbFiles ==
    { << <<"RIGOL:CSV DATA FILE">> >> \o h \o p : h \in ArbPreambles, p \in ArbPayloads }

\* the files parse is called on: those some parser of the registry accepts
ParseFiles ==
    { f \in CsvFiles \cup ArbFiles : find_parser(read_first_lines(f)) # "None" }

InitParse ==
    /\ p_file \in ParseFiles
    /\ p_parser = find_parser(read_first_lines(p_file))
    /\ p_pc = "ready"
    /\ p_with = NoScript
    /\ p_without = NoScript
    /\ DecimateIdle
    /\ SelectIdle
    /\ BinaryIdle
    /\ DetectIdle
    /\ ViewerInit

\* parser.parse(file_name, progress_callback), the callback never raises
ParseWithCallback ==
    /\ p_pc = "ready"
    /\ p_with' = parse_call(p_parser, p_file, TRUE)
    /\ p_pc' = "reported"
    /\ UNCHANGED <<p_file, p_parser, p_without, dvars, svars, vvars, bvars, avars>>

\* parser.parse(file_name) on the same file
ParseWithoutCallback ==
    /\ p_pc = "reported"
    /\ p_without' = parse_call(p_parser, p_file, FALSE)
    /\ p_pc' = "parsed"
    /\ UNCHANGED <<p_file, p_parser, p_with, dvars, svars, vvars, bvars, avars>>

NextParse == ParseWithCallback \/ ParseWithoutCallback

SpecParse == InitParse /\ [][NextParse]_vars

(***************************************************************************)
(* The binary decode on bounded files and descriptors (SpecBinary)         *)
(***************************************************************************)
\* largest requested header offset
MaxOffset == 4
\* longest byte file
MaxFileBytes == 9
\* largest channel count; channel indexes run up to it
MaxChannels == 3
\* items the preview reader asks for (4096 in preview_data)
PreviewItems == 3

\* the bytes the files are cut from
ByteAt(i) == <<1, 2, 255, 255, 5, 0, 128, 7>>[((i - 1) % 8) + 1]

DecodeFiles == { [i \in 1..n |-> ByteAt(i)] : n \in 0..MaxFileBytes }

\* the type tags tried: one per element width, and one that is no key of dtype_map
DecodeDtypes == {"uint8", "int16", "int32", "float64", "int24"}

\* scale_v_per_unit and v_offset
Scalings == { [scale |-> 1, v_offset |-> 0], [scale |-> 2, v_offset |-> 1] }

\* the descriptors load_binary's try block is run on; the dialog itself only
\* hands over a positive sample rate, a known type and an index below the count
DecodeParams ==
    { [endian |-> e, dtype |-> t, offset_bytes |-> o, length_bytes |-> l,
       sample_rate_hz |-> r, scale_v_per_unit |-> sc.scale, v_offset |-> sc.v_offset,
       channel_count |-> c, channel_index |-> k] :
         e \in {"Little", "Big"}, t \in DecodeDtypes, o \in 0..MaxOffset,
         l \in {0, 1, 4}, r \in {0, 1, 2}, sc \in Scalings,
         c \in 1..MaxChannels, k \in 0..MaxChannels }

InitBinary ==
    /\ b_bytes \in DecodeFiles
    /\ b_params \in DecodeParams
    /\ b_pc = "ready"
    /\ b_read = None
    /\ b_result = NoScript
    /\ b_preview = None
    /\ DecimateIdle
    /\ SelectIdle
    /\ DetectIdle /\ ParseIdle
    /\ ViewerInit

\* load_binary's try block on the file and the descriptor
BinaryDecode ==
    /\ b_pc = "ready"
    /\ b_result' = load_binary_call(b_bytes, b_params)
    /\ b_read' = IF b_params.sample_rate_hz > 0 /\ b_params.dtype \in DOMAIN dtype_map
                 THEN load_binary_read(b_bytes, b_params)
                 ELSE None
    /\ b_pc' = "decoded"
    /\ UNCHANGED <<b_bytes, b_params, b_preview, dvars, svars, vvars, avars, pvars>>

\* preview_data's read of the same file under the same settings
BinaryPreview ==
    /\ b_pc = "decoded"
    /\ b_params.dtype \in DOMAIN dtype_map
    /\ b_preview' = read_channel_samples(b_bytes, b_params, b_params.offset_bytes,
                                         PreviewItems)
    /\ b_pc' = "previewed"
    /\ UNCHANGED <<b_bytes, b_params, b_read, b_result, dvars, svars, vvars, avars, pvars>>

NextBinary == BinaryDecode \/ BinaryPreview

SpecBinary == InitBinary /\ [][NextBinary]_vars

(***************************************************************************)
(* detect_header_offset on bounded files (SpecDetect)                      *)
(***************************************************************************)
\* samples per window (4096 in the source)
items_per_window == 4
\* windows with fewer samples score infinity (64 in the source)
min_scored_items == 2
\* samples between two window offsets (8 in the source)
hop_samples == 2
\* max_scan_bytes (1 << 20 in the source)
max_scan_bytes == 24
\* longest constant run and longest tail of the structured files
MaxRun == 20
MaxTail == 6
\* longest file of arbitrary bytes
MaxAnyBytes == 5

\* a score: float('inf'), or the fraction num / den
Inf == [inf |-> TRUE, num |-> 0, den |-> 1]
Score(num, den) == [inf |-> FALSE, num |-> num, den |-> den]

\* s < t on scores
ScoreLess(s, t) ==
    /\ ~s.inf
    /\ t.inf \/ s.num * t.den < t.num * s.den

\* np.count_nonzero(np.diff(arr) != 0)
transitions(arr) == Cardinality({ i \in 1..(Len(arr) - 1) : arr[i] # arr[i + 1] })

\* len(np.unique(arr))
unique_count(arr) == Cardinality({ arr[i] : i \in 1..Len(arr) })

\* a score that favours many transitions and many distinct values
window_score_busy(arr) ==
    IF Len(arr) < min_scored_items
    THEN Inf
    ELSE Score(4 * (Len(arr) - transitions(arr)) + 3 * (Len(arr) - unique_count(arr)),
               4 * Len(arr))

\* window_score(arr): trans + 0.75 * uniq = (4 * transitions + 3 * unique) / (4 * size)
window_score(arr) ==
    IF Len(arr) < min_scored_items
    THEN Inf
    ELSE Score(4 * transitions(arr) + 3 * unique_count(arr), 4 * Len(arr))

\* step = max(1, itemsize * max(1, channel_count))
detect_step(params) == Max2(1, dtype_map[params.dtype] * Max2(1, params.channel_count))

\* limit = min(max_scan_bytes, file_size)
detect_limit(bytes) == Min2(max_scan_bytes, Len(bytes))

\* the items np.fromfile returns for the window at off
detect_raw(bytes, params, off) ==
    fromfile(bytes, off, params.dtype, IF params.endian = "Little" THEN "<" ELSE ">",
             items_per_window * params.channel_count)

\* the samples of the chosen channel in the window at off
detect_arr(bytes, params, off) ==
    IF params.channel_count > 1
    THEN deinterleave(detect_raw(bytes, params, off), params.channel_count,
                      params.channel_index)
    ELSE detect_raw(bytes, params, off)

\* bytes that never repeat and differ from the bytes of the constant runs
Noise == <<3, 141, 59, 26, 53, 58, 97, 93, 238, 46>>

\* a constant run followed by noise
StructuredFiles ==
    { [i \in 1..(r + t) |-> IF i <= r THEN v ELSE Noise[((i - r - 1) % Len(Noise)) + 1]] :
          r \in 0..MaxRun, t \in 0..MaxTail, v \in {0, 7} }

DetectFiles ==
    StructuredFiles \cup UNION { [1..n -> {0, 1}] : n \in 0..MaxAnyBytes }

\* the settings auto_detect_offset and load_binary pass on
DetectParams ==
    { p \in [endian : {"Little", "Big"}, dtype : {"uint8", "int16"},
             channel_count : 1..2, channel_index : 0..1] :
          p.channel_index < p.channel_count }

InitDetect ==
    /\ a_bytes \in DetectFiles
    /\ a_params \in DetectParams
    /\ a_pc = "scan"
    /\ a_off = 0
    /\ a_best_offset = 0
    /\ a_best_score = Inf
    /\ DecimateIdle
    /\ SelectIdle
    /\ BinaryIdle
    /\ ParseIdle
    /\ ViewerInit

\* a loop iteration whose read returns fewer than items_per_window items: continue
detect_short_window ==
    /\ a_pc = "scan"
    /\ a_off < detect_limit(a_bytes)
    /\ Len(detect_raw(a_bytes, a_params, a_off)) < items_per_window
    /\ a_off' = a_off + detect_step(a_params) * hop_samples
    /\ UNCHANGED <<a_bytes, a_params, a_pc, a_best_offset, a_best_score,
                   dvars, svars, vvars, bvars, pvars>>

\* a scan that moves on by one byte after a scored window
detect_window_bytewise ==
    /\ a_pc = "scan"
    /\ a_off < detect_limit(a_bytes)
    /\ Len(detect_raw(a_bytes, a_params, a_off)) >= items_per_window
    /\ LET s == window_score(detect_arr(a_bytes, a_params, a_off))
       IN IF ScoreLess(s, a_best_score)
          THEN a_best_score' = s /\ a_best_offset' = a_off
          ELSE UNCHANGED <<a_best_score, a_best_offset>>
    /\ a_off' = a_off + 1
    /\ UNCHANGED <<a_bytes, a_params, a_pc, dvars, svars, vvars, bvars, pvars>>

\* a loop iteration that scores its window and keeps it when it is strictly better
detect_window ==
    /\ a_pc = "scan"
    /\ a_off < detect_limit(a_bytes)
    /\ Len(detect_raw(a_bytes, a_params, a_off)) >= items_per_window
    /\ LET s == window_score(detect_arr(a_bytes, a_params, a_off))
       IN IF ScoreLess(s, a_best_score)
          THEN a_best_score' = s /\ a_best_offset' = a_off
          ELSE UNCHANGED <<a_best_score, a_best_offset>>
    /\ a_off' = a_off + detect_step(a_params) * hop_samples
    /\ UNCHANGED <<a_bytes, a_params, a_pc, dvars, svars, vvars, bvars, pvars>>

\* the range is exhausted: return best_offset
detect_return ==
    /\ a_pc = "scan"
    /\ a_off >= detect_limit(a_bytes)
    /\ a_pc' = "detected"
    /\ UNCHANGED <<a_bytes, a_params, a_off, a_best_offset, a_best_score,
                   dvars, svars, vvars, bvars, pvars>>

\* Path(file_path).stat() or open(file_path, 'rb') raises: the file has gone or
\* cannot be read
detect_raises ==
    /\ a_pc = "scan"
    /\ a_pc' = "raised"
    /\ UNCHANGED <<a_bytes, a_params, a_off, a_best_offset, a_best_score,
                   dvars, svars, vvars, bvars, pvars>>

NextDetect == detect_short_window \/ detect_window \/ detect_return \/ detect_raises

\* params['offset_bytes'] after load_binary's auto-detect block, for the offset
\* the dialog returned: the detected offset, or the user's when the call raised
offset_after_auto_detect(user_offset) ==
    IF a_pc = "detected" THEN a_best_offset ELSE user_offset

\* eff_offset of load_binary for that offset
load_eff_offset(user_offset) ==
    LET ch_count == Max2(1, a_params.channel_count)
        sample_bytes == dtype_map[a_params.dtype] * ch_count
    IN align_offset(offset_after_auto_detect(user_offset), sample_bytes)

SpecDetect == InitDetect /\ [][NextDetect]_vars

(***************************************************************************)
(* Claims about decimate_data (checked under SpecDecimate)                 *)
(***************************************************************************)
Decimated == d_stage \in {"once", "twice"}

\* the factor and the chunk count the claims speak of, from the input length
ClaimFactor == Len(d_x) \div (d_max_points \div 2)
ClaimChunks == Len(d_x) \div ClaimFactor
\* the 1-based positions of the input samples of chunk i (i = 0..n-1)
ChunkPositions(i) == (i * ClaimFactor + 1)..((i + 1) * ClaimFactor)

\* C1: a series with len(time) <= max_points comes back unchanged: the same
\* time and value sequences, in length, order and content.
C1_DecimationIdentity ==
    (Decimated /\ Len(d_x) <= d_max_points) => (d_out.x = d_x /\ d_out.y = d_y)

\* the identity branch taken at the boundary len = max_points, non-empty
W_C1_IdentityAtBoundary ==
    /\ d_stage = "once"
    /\ Len(d_x) = d_max_points
    /\ d_out.y = d_y
    /\ \E i, j \in 1..Len(d_y) : d_y[i] # d_y[j]

\* C2: for len > max_points the output has exactly 2n points; for chunk i the
\* points 2i and 2i+1 both carry the time of the chunk's first sample, point
\* 2i carries the chunk's minimum and point 2i+1 its maximum, chunks in input
\* order; the worked example gives time [0,0,4,4], values [1,9,0,8].
C2_DecimationReference ==
    /\ (Decimated /\ Len(d_x) > d_max_points) =>
          /\ Len(d_out.x) = 2 * ClaimChunks
          /\ Len(d_out.y) = 2 * ClaimChunks
          /\ \A i \in 0..(ClaimChunks - 1) :
                /\ d_out.x[2 * i + 1] = d_x[i * ClaimFactor + 1]
                /\ d_out.x[2 * i + 2] = d_x[i * ClaimFactor + 1]
                /\ \E j \in ChunkPositions(i) : d_out.y[2 * i + 1] = d_y[j]
                /\ \A j \in ChunkPositions(i) : d_out.y[2 * i + 1] <= d_y[j]
                /\ \E j \in ChunkPositions(i) : d_out.y[2 * i + 2] = d_y[j]
                /\ \A j \in ChunkPositions(i) : d_out.y[2 * i + 2] >= d_y[j]
    /\ (Decimated /\ d_x = Example.x /\ d_y = Example.y /\ d_max_points = Example.max_points) =>
          (d_out.x = <<0, 0, 4, 4>> /\ d_out.y = <<1, 9, 0, 8>>)

\* the worked example has been decimated
W_C2_ExampleDecimated ==
    /\ d_stage = "once"
    /\ d_y = Example.y
    /\ d_max_points = Example.max_points
    /\ Len(d_out.y) = 4

\* C3 (as claimed): for len > max_points the output length is <= max_points.
CE_C3_OutputWithinMaxPoints ==
    (Decimated /\ Len(d_x) > d_max_points) => Len(d_out.x) <= d_max_points

\* C4: decimating the output again with the same max_points returns it
\* unchanged: decimate(decimate(s, M), M) = decimate(s, M).
C4_DecimationIdempotent ==
    (d_stage = "twice") => (d_out2 = d_out)

\* the second pass really decimates: the first output is still longer than
\* max_points and its samples are not all equal
W_C4_SecondPassDecimates ==
    /\ d_stage = "twice"
    /\ Len(d_x) > d_max_points
    /\ Len(d_out.x) > d_max_points
    /\ \E i, j \in 1..Len(d_out.y) : d_out.y[i] # d_out.y[j]

\* C5 (as claimed): every input sample lies inside the [min, max] bracket of
\* some output chunk, so the output's extremes equal the input's extremes.
CE_C5_NoSampleOutsideBrackets ==
    (Decimated /\ Len(d_x) > d_max_points) =>
        /\ \A j \in 1..Len(d_y) :
              \E i \in 0..(ClaimChunks - 1) :
                  d_out.y[2 * i + 1] <= d_y[j] /\ d_y[j] <= d_out.y[2 * i + 2]
        /\ SeqMax(d_out.y) = SeqMax(d_y)
        /\ SeqMin(d_out.y) = SeqMin(d_y)

\* C5 (amended): every one of the first n*factor input samples lies inside the
\* bracket emitted for its own chunk, so the output's extremes equal the
\* extremes of those first n*factor samples.
C5_ChunkSamplesInsideBrackets ==
    (Decimated /\ Len(d_x) > d_max_points) =>
        /\ \A i \in 0..(ClaimChunks - 1) :
              \A j \in ChunkPositions(i) :
                  d_out.y[2 * i + 1] <= d_y[j] /\ d_y[j] <= d_out.y[2 * i + 2]
        /\ SeqMax(d_out.y) = SeqMax(SubSeq(d_y, 1, ClaimChunks * ClaimFactor))
        /\ SeqMin(d_out.y) = SeqMin(SubSeq(d_y, 1, ClaimChunks * ClaimFactor))

\* a spike in the middle of a chunk (above the chunk's first and last sample)
\* has been decimated and is the maximum emitted for that chunk
W_C5_SpikeInsideChunk ==
    /\ d_stage = "once"
    /\ Len(d_x) > d_max_points
    /\ ClaimFactor >= 3
    /\ d_y[2] > d_y[1]
    /\ d_y[2] > d_y[3]
    /\ d_out.y[2] = d_y[2]

(***************************************************************************)
(* Claims about parser selection (checked under SpecSelect)                *)
(***************************************************************************)
\* the order the registry is said to have, generic parser last
ClaimedOrder ==
    <<"Siglent", "Batronix", "BatronixDisplay", "Rigol", "RigolArb", "Pyqtgraph">>

\* positions in ClaimedOrder of the parsers whose can_parse accepts s_lines
Accepting == { i \in 1..Len(ClaimedOrder) : can_parse(ClaimedOrder[i], s_lines) }

\* C8: the selected parser is the earliest entry, in the order Siglent,
\* Batronix, Batronix Display, Rigol, Rigol Arb, PyQtGraph, whose can_parse
\* returns true, or none when no can_parse returns true; the generic PyQtGraph
\* parser is never selected when a vendor-specific parser matches.
C8_FirstMatchInFixedOrder ==
    s_done =>
        /\ (Accepting = {}) => (s_parser = "None")
        /\ (Accepting # {}) =>
              \E i \in Accepting : (\A j \in Accepting : i <= j) /\ s_parser = ClaimedOrder[i]
        /\ (s_parser = "Pyqtgraph") =>
              (\A i \in 1..(Len(ClaimedOrder) - 1) : ~can_parse(ClaimedOrder[i], s_lines))

\* a vendor parser was selected although the generic parser and a later
\* vendor parser accept the same lines
W_C8_VendorBeatsGeneric ==
    /\ s_done
    /\ Cardinality(Accepting) >= 3
    /\ can_parse("Pyqtgraph", s_lines)
    /\ s_parser \notin {"None", "Pyqtgraph"}

\* some field of some line is one of fs
SomeField(fs) == \E i \in 1..Len(s_lines) : \E k \in 1..Len(s_lines[i]) : s_lines[i][k] \in fs

\* the header markers of each vendor format (the Batronix Display markers are
\* compared without regard to case, as that detector lower-cases the lines)
CarriesMarker(v) ==
    CASE v = "Siglent" -> SomeField({"Record Length"}) /\ SomeField({"Model Number"})
      [] v = "Batronix" -> SomeField({"time difference to trigger in s"})
      [] v = "BatronixDisplay" ->
             /\ SomeField({"start time in s", "Start Time in s"})
             /\ \E i \in 1..Len(s_lines) :
                   /\ \E k \in 1..Len(s_lines[i]) : s_lines[i][k] = "time in s"
                   /\ \E k \in 1..Len(s_lines[i]) :
                         s_lines[i][k] \in {"CH1 minimum in V", "CH2 minimum in V"}
                   /\ \E k \in 1..Len(s_lines[i]) :
                         s_lines[i][k] \in {"CH1 maximum in V", "CH2 maximum in V"}
      [] v = "Rigol" ->
             \E i \in 1..Len(s_lines) : \E k \in 1..(Len(s_lines[i]) - 1) :
                 s_lines[i][k] = "Time(s)" /\ s_lines[i][k + 1] = "CH1V"
      [] v = "RigolArb" -> SomeField({"RIGOL:CSV DATA FILE"})

Vendors == {"Siglent", "Batronix", "BatronixDisplay", "Rigol", "RigolArb"}
CarriedVendors == { v \in Vendors : CarriesMarker(v) }

\* C9, first half: lines that carry the markers of exactly one vendor format
\* select that vendor's parser and no other.
ExactlyOneVendorSelectsIt ==
    \A v \in Vendors : (s_done /\ CarriedVendors = {v}) => (s_parser = v)

\* the first non-empty line is an x...,y... header, the generic format's marker
CarriesGenericHeader ==
    \E i \in 1..Len(s_lines) :
        /\ \A j \in 1..(i - 1) : s_lines[j] = EmptyLine
        /\ Len(s_lines[i]) >= 2
        /\ s_lines[i][1] = "x0000"
        /\ s_lines[i][2] = "y0000"

\* C9 (as claimed): lines that carry the markers of exactly one vendor format
\* select that vendor's parser and no other, and lines that carry no
\* supported marker (no vendor marker, no x/y header) select none.
CE_C9_DispatchExclusive ==
    /\ ExactlyOneVendorSelectsIt
    /\ (s_done /\ CarriedVendors = {} /\ ~CarriesGenericHeader) => (s_parser = "None")

\* C9 (amended): lines that carry the markers of exactly one vendor format
\* select that vendor's parser and no other; lines that carry no vendor marker
\* select the generic PyQtGraph parser when its can_parse accepts them and
\* none otherwise.
C9_DispatchExclusiveOrGeneric ==
    /\ ExactlyOneVendorSelectsIt
    /\ (s_done /\ CarriedVendors = {}) =>
          (s_parser = IF can_parse("Pyqtgraph", s_lines) THEN "Pyqtgraph" ELSE "None")

\* a display file with a capitalised first header and nothing else selected
\* the display parser
W_C9_OnlyDisplayMarkers ==
    /\ s_done
    /\ CarriedVendors = {"BatronixDisplay"}
    /\ SomeField({"Start Time in s"})
    /\ ~SomeField({"start time in s"})
    /\ s_parser = "BatronixDisplay"

(***************************************************************************)
(* Claims about the loads (checked under Spec)                             *)
(***************************************************************************)
\* a load handler has run to its end and has not returned yet
LoadEnded == l_pc = "done"

\* the attributes C6 speaks of are what they were when the load started
StateAsBefore ==
    /\ self_metadata = h_pre.metadata
    /\ self_raw_data = h_pre.raw_data
    /\ self_selected_channel = h_pre.selected_channel

\* C6 (as stated): a load that ends with no matching parser, with an error or
\* with cancellation leaves metadata, raw series and selected channel exactly
\* as they were before it; they change only when a load succeeds.
CE_C6_FailedLoadsPreserveState ==
    (LoadEnded /\ h_outcome \in {"unsupported", "error", "cancelled"}) => StateAsBefore

\* C7 (as stated): whenever a progress callback raises the cancellation signal
\* during parse, parse ends with the cancellation outcome, nothing is stored,
\* no error box is shown and the load reports the neutral cancelled state.
CE_C7_CancellationStaysCancellation ==
    (LoadEnded /\ h_kind = "csv" /\ h_cb_raised)
        => /\ h_parse_outcome = "cancelled"
           /\ h_outcome = "cancelled"
           /\ message_box = None
           /\ self_data_info_label = Label("Loading cancelled")
           /\ StateAsBefore

\* the positions in the registry of the parsers accepting the first lines of
\* the file of the last CSV load
MatchingPositions ==
    { i \in 1..Len(ClaimedOrder) : can_parse(ClaimedOrder[i], read_first_lines(l_file)) }

\* C10: a CSV load of a file no parser accepts ends with the unsupported-format
\* error box that lists the six format names, without a parse call and without
\* a progress event; a CSV load of a file some parser accepts makes exactly one
\* parse call, on the first accepting parser, and ends cancelled when parse
\* ended cancelled and with an error when parse ended with an error.
C10_UnsupportedOrDelegatedOnce ==
    (LoadEnded /\ h_kind = "csv")
        => IF MatchingPositions = {}
           THEN /\ h_outcome = "unsupported"
                /\ message_box # None
                /\ message_box.text = "Unsupported CSV format. Currently supported formats:"
                /\ message_box.detail = ClaimedOrder
                /\ l_parse_calls = 0
                /\ l_parser = "None"
                /\ l_events = <<>>
                /\ h_parse_outcome = "none"
           ELSE /\ l_parse_calls = 1
                /\ l_parser = ClaimedOrder[SetMin(MatchingPositions)]
                /\ h_parse_outcome \in {"returned", "cancelled", "error"}
                /\ h_parse_outcome = "cancelled"
                      => (h_outcome = "cancelled" /\ message_box = None)
                /\ h_parse_outcome = "error"
                      => (h_outcome = "error" /\ message_box # None)

\* an unsupported file was refused while an earlier load is still displayed
W_C10_UnsupportedAfterLoad ==
    /\ LoadEnded
    /\ h_kind = "csv"
    /\ h_outcome = "unsupported"
    /\ l_file # <<>>
    /\ self_raw_data # None

(***************************************************************************)
(* Claims about the binary decode (checked under SpecBinary)               *)
(***************************************************************************)
Decoded == b_pc \in {"decoded", "previewed"}

\* the try block ended with this ValueError and built no series
FailsWith(message) ==
    /\ b_result.result.kind = "error"
    /\ b_result.result.message = message

\* the two messages of the empty-result error
EmptyResult ==
    \/ FailsWith("No data samples found with the given settings")
    \/ FailsWith("Not enough data for the specified channel count")

\* samples left after offset, length and channel de-interleave
SamplesLeft == Len(b_read.data) \div b_read.ch_count

NearestBoundaryAbove(b, a, step) ==
    /\ b % step = 0
    /\ b >= a
    /\ b - a < step

\* element_size * channel_count of the descriptor
ClaimSampleBytes == dtype_map[b_params.dtype] * b_params.channel_count

\* C12: for every requested offset >= 0, element width in {1,2,4,8} and
\* channel_count >= 1, the effective offset used by load_binary and the one used
\* by the preview reader are the nearest sample boundary at or above the request:
\* a multiple of element_size * channel_count, >= the request, and less than
\* element_size * channel_count above it.
C12_HeaderAlignment ==
    /\ (Decoded /\ b_read # None) =>
           NearestBoundaryAbove(b_read.eff_offset, b_params.offset_bytes, ClaimSampleBytes)
    /\ b_pc = "previewed" =>
           NearestBoundaryAbove(b_preview.eff_offset, b_params.offset_bytes, ClaimSampleBytes)

\* an unaligned request under eight-byte elements and several channels has been
\* moved up by load_binary and by the preview reader
W_C12_OffsetMovedUp ==
    /\ b_pc = "previewed"
    /\ b_read # None
    /\ dtype_map[b_params.dtype] = 8
    /\ b_params.channel_count > 1
    /\ b_read.eff_offset > b_params.offset_bytes
    /\ b_preview.eff_offset = b_read.eff_offset

\* the elements the claim allows a read of length_bytes > 0 to return
ClaimedLimit ==
    Max2(0, b_params.length_bytes - (b_read.eff_offset - b_params.offset_bytes))
        \div dtype_map[b_params.dtype]

\* C13 (as claimed): whenever a byte length > 0 is requested, load_binary reads
\* at most floor(max(0, length - (effective_offset - requested_offset)) /
\* element_size) elements; only a requested length of 0 takes the item count
\* from the bytes that remain after the effective offset.
CE_C13_LengthLimitsRead ==
    (Decoded /\ b_read # None) =>
        IF b_params.length_bytes > 0
        THEN Len(b_read.data) <= ClaimedLimit
        ELSE b_read.count = Max2(0, Len(b_bytes) - b_read.eff_offset) \div b_read.itemsize

DecodeSucceeded == Decoded /\ b_result.result.kind = "ok"

\* raw * scale + dc_offset in twentieths; an element kept as its bits stays an
\* expression over them
ClaimedValue(raw) ==
    IF dtype_map[b_params.dtype] > 2
    THEN [raw |-> raw, scale |-> b_params.scale_v_per_unit, v_offset |-> b_params.v_offset]
    ELSE 20 * raw * b_params.scale_v_per_unit + 20 * b_params.v_offset

\* C14: a successful load_binary with channel_count = c, channel_index = k and N
\* elements read has exactly floor(N / c) samples; sample i comes from element
\* i*c + k, its value is raw * scale + dc_offset, its time is i / sample_rate,
\* and time and value have the same length.
C14_Deinterleave ==
    DecodeSucceeded =>
        LET c == b_params.channel_count
            k == b_params.channel_index
            N == Len(b_read.data)
            time == column(b_result.result.data, "Second")
            value == column(b_result.result.data, "Value")
        IN /\ Len(value) = N \div c
           /\ Len(time) = Len(value)
           /\ \A i \in 0..(Len(value) - 1) :
                 /\ value[i + 1] = Num(ClaimedValue(b_read.data[i * c + k + 1]))
                 /\ IsNum(time[i + 1])
                 /\ time[i + 1].f * b_params.sample_rate_hz = 20 * i

\* two channels or more, a channel other than the first, two samples or more
\* and an incomplete trailing row
W_C14_StridedWithTail ==
    /\ DecodeSucceeded
    /\ b_params.channel_count > 1
    /\ b_params.channel_index > 0
    /\ Len(b_read.data) % b_params.channel_count # 0
    /\ Len(b_result.result.data.rows) >= 2
    /\ b_params.scale_v_per_unit = 2
    /\ b_params.sample_rate_hz = 2

(***************************************************************************)
(* Claims about detect_header_offset (checked under SpecDetect)            *)
(***************************************************************************)
Detected == a_pc = "detected"

\* bytes of one full window: items_per_window samples of every channel
WindowBytes == items_per_window * detect_step(a_params)

\* length of the constant run the file starts with
RunLength ==
    IF a_bytes = <<>> THEN 0
    ELSE CHOOSE r \in 1..Len(a_bytes) :
            /\ \A i \in 1..r : a_bytes[i] = a_bytes[1]
            /\ r < Len(a_bytes) => a_bytes[r + 1] # a_bytes[1]

\* a constant run of at least one full window, then bytes that never repeat
\* and never take the value of the run
ConstantThenNoise ==
    /\ RunLength >= WindowBytes
    /\ RunLength < Len(a_bytes)
    /\ \A i, j \in (RunLength + 1)..Len(a_bytes) :
           /\ a_bytes[i] # a_bytes[1]
           /\ i # j => a_bytes[i] # a_bytes[j]

\* the offsets of the windows the scan scored
ScoredOffsets ==
    { off \in 0..(detect_limit(a_bytes) - 1) :
          /\ off % (detect_step(a_params) * hop_samples) = 0
          /\ Len(detect_raw(a_bytes, a_params, off)) >= items_per_window }

\* C15: for a file that is a constant run of at least one full preview window
\* followed by high-entropy bytes, detect_header_offset returns an offset inside
\* the constant run, not inside the random region.
C15_DetectsInsideConstantRun ==
    (Detected /\ ConstantThenNoise) => a_best_offset < RunLength

\* the scan has returned on such a file after scoring windows that start in
\* the constant run and windows that start in the random region
W_C15_NoiseWindowsScored ==
    /\ Detected
    /\ ConstantThenNoise
    /\ \E off \in ScoredOffsets : off >= RunLength
    /\ \E off \in ScoredOffsets : off > 0 /\ off < RunLength


\* the candidate offsets 0, 8*s, 16*s, ... below min(max_scan_bytes, file_size)
CandidateOffsets ==
    { off \in 0..(detect_limit(a_bytes) - 1) :
          off % (detect_step(a_params) * hop_samples) = 0 }

\* the score of the window at a candidate offset: infinity under
\* min_scored_items channel samples, transition density + 0.75 * unique
\* fraction otherwise
CandidateScore(off) == window_score(detect_arr(a_bytes, a_params, off))

\* the lowest candidate offset of minimal score, 0 when no score is finite
LowestMinimalCandidate ==
    IF \A off \in CandidateOffsets : CandidateScore(off).inf
    THEN 0
    ELSE CHOOSE off \in CandidateOffsets :
            /\ ~CandidateScore(off).inf
            /\ \A other \in CandidateOffsets :
                   /\ ~ScoreLess(CandidateScore(other), CandidateScore(off))
                   /\ other < off =>
                          ScoreLess(CandidateScore(off), CandidateScore(other))

\* C22: detect_header_offset evaluates exactly the candidate offsets 0, 8*s,
\* 16*s, ... below min(max_scan_bytes, file_size), scores every window with
\* fewer than 64 channel samples infinity, and returns the lowest candidate
\* offset whose score is minimal among all candidates, 0 when no candidate has
\* a finite score.
CE_C22_MinimalOverAllCandidates ==
    Detected => a_best_offset = LowestMinimalCandidate
\* the parse call of the load that is ending returned (metadata, data)
ParseReturned == LoadEnded /\ h_kind = "csv" /\ h_parse_outcome = "returned"

\* the unit the axis shows is the first entry of the metadata list, or the
\* default when the metadata has no such key
UnitShown(shown, key, default) ==
    IF key \in DOMAIN self_metadata
    THEN shown = self_metadata[key].list[1]
    ELSE shown = default

\* C16 (as claimed): for every parser in the registry, the metadata a successful
\* parse returns has a 'format' entry, and the units on display are those of the
\* metadata or the defaults s and V.
CE_C16_ProvenanceMetadata ==
    ParseReturned =>
        /\ <<"format">> \in DOMAIN l_script.result.metadata
        /\ h_outcome = "ok" =>
              /\ UnitShown(self_plot_widget.bottom, <<"Horizontal Units">>, "s")
              /\ UnitShown(self_plot_widget.left, <<"Vertical Units">>, "V")

\* a payload row whose time column cannot be coerced to a float
IsBadRow(line) == line \in {BadRow2, BadRow3}
IsGoodLine(line) == ~IsBadRow(line)

\* the file without those rows
Cleaned(file_lines) == SelectSeq(file_lines, IsGoodLine)

\* the parse call of the load that is ending ran to its end without a
\* cancellation
ParseRanThrough ==
    LoadEnded /\ h_kind = "csv" /\ l_parse_calls = 1 /\ ~h_cb_raised

\* every row of the frame has a numeric time and a numeric primary value
AllNumeric(data) ==
    \A i \in 1..Len(data.rows) : IsNum(data.rows[i][1]) /\ IsNum(data.rows[i][2])

\* C17 (as claimed): for every parser in the registry, a payload row whose time
\* or primary value cannot be coerced to a float is absent from the returned
\* series, the parse still succeeds, the rows that do coerce are kept in file
\* order, and the series holds no non-numeric time or primary value: the parse
\* gives the series it gives for the file without those rows.
CE_C17_RowCoercion ==
    ParseRanThrough =>
        LET clean == parse(l_parser, Cleaned(l_file)).result
            got == l_script.result
        IN clean.kind = "ok" =>
              /\ got.kind = "ok"
              /\ got.data.rows = clean.data.rows
              /\ AllNumeric(got.data)

\* the header line of a display file: the line that starts with "time in s"
DisplayHeader(file_lines) ==
    LET hits == { i \in 1..Len(file_lines) :
                     file_lines[i] # <<>> /\ file_lines[i][1] = "time in s" }
    IN file_lines[SetMin(hits)]

HasColumn(header, name) == \E k \in 1..Len(header) : header[k] = name

\* the channel numbers with both a minimum and a maximum column
CompleteChannels(header) ==
    { n \in {1, 2} :
         /\ HasColumn(header, IF n = 1 THEN "CH1 minimum in V" ELSE "CH2 minimum in V")
         /\ HasColumn(header, IF n = 1 THEN "CH1 maximum in V" ELSE "CH2 maximum in V") }

\* the members of a set of channel numbers in ascending order
Ascending(S) ==
    CHOOSE q \in UNION { [1..n -> S] : n \in {Cardinality(S)} } :
        \A i, j \in 1..Cardinality(S) : i < j => q[i] < q[j]

DisplayParsed == ParseReturned /\ l_parser = "BatronixDisplay"

\* C18: for a display file, metadata 'Channels' is the ascending list of exactly
\* the channels that have both a minimum and a maximum column, the primary
\* 'Value' column is Value_CH1 when channel 1 is in the list and the column of
\* the lowest channel otherwise, and after the load the viewer's selected
\* channel is that primary channel.
C18_PrimaryChannelPolicy ==
    DisplayParsed =>
        LET complete == CompleteChannels(DisplayHeader(l_file))
            primary == IF 1 \in complete THEN 1 ELSE SetMin(complete)
            md == l_script.result.metadata
            data == l_script.result.data
        IN /\ complete # {}
           /\ <<"Channels">> \in DOMAIN md
           /\ md[<<"Channels">>] = IntList(Ascending(complete))
           /\ column(data, "Value") = column(data, value_ch_name(primary))
           /\ h_outcome = "ok" => self_selected_channel = Ch(primary)

\* a display load has ended well on a file whose channel 1 has only a minimum
\* column: channel 2 is the only listed one and the one selected
W_C18_LowestChannelSelected ==
    /\ DisplayParsed
    /\ h_outcome = "ok"
    /\ HasColumn(DisplayHeader(l_file), "CH1 minimum in V")
    /\ CompleteChannels(DisplayHeader(l_file)) = {2}
    /\ Len(l_script.result.data.rows) >= 1
    /\ self_selected_channel = Ch(2)

\* C19 (as claimed): for every parser and for every way a parse call or the
\* binary read ends (return, parse error, cancellation raised by the progress
\* callback in the middle of the chunked read), every file handle or chunked
\* reader the call opened is closed by the time the call has returned or raised.
CE_C19_HandlesScopedToCall ==
    LoadEnded => l_reader # "open"

(***************************************************************************)
(* Cancellation ordering (checked under SpecLive)                          *)
(***************************************************************************)
\* the steps of a running parse call and its return to load_csv
ParseStep ==
    \/ update_progress
    \/ update_progress_cancelled
    \/ read_chunk
    \/ load_csv_returned
    \/ load_csv_raised

\* parse is synchronous code: once called it keeps running until it returns or
\* raises
SpecLive == Spec /\ WF_vars(ParseStep)

\* Cancel has been pressed while parse is running
CancelRequested == l_pc = "parsing" /\ l_canceled

\* parse has a progress callback still to make
CallbackAhead ==
    \E j \in (l_pos + 1)..Len(l_script.steps) : l_script.steps[j].op = "callback"

\* from the request on, parse only completes the chunk in flight or is aborted
\* by its next callback; neither step emits a progress event or assigns the
\* viewer state, and the abort ends the call
CancelOrdering ==
    [][(CancelRequested /\ CallbackAhead) =>
          /\ l_events' = l_events
          /\ state' = state
          /\ \/ l_pc' = "parsing" /\ NextStep.op = "chunk" /\ l_pos' = l_pos + 1
             \/ l_pc' = "done" /\ NextStep.op = "callback" /\ h_cb_raised']_vars

\* C20 (as claimed): once cancellation is requested during a CSV parse, the
\* chunk in flight is completed, the very next progress callback aborts the
\* parse, no further chunk is read, no progress event is emitted and the viewer
\* state is not assigned; and if it is requested before the parser's last
\* progress callback, the load eventually ends in the cancelled outcome.
CE_C20_CancellationOrdering ==
    /\ CancelOrdering
    /\ (CancelRequested /\ CallbackAhead) ~> (LoadEnded /\ h_outcome = "cancelled")

(***************************************************************************)
(* More claims about decimate_data (checked under SpecDecimate)            *)
(***************************************************************************)
\* the positions of the last len mod factor samples
TailPositions == (ClaimChunks * ClaimFactor + 1)..Len(d_x)

\* C21: for every series with len > max_points the output depends only on the
\* first floor(len/factor)*factor samples: giving any of the last len mod factor
\* samples another time or another value leaves the output unchanged, and a
\* non-zero remainder still yields the 2 * floor(len/factor) output points.
C21_TrailingRemainderDropped ==
    (Decimated /\ Len(d_x) > d_max_points) =>
        /\ Len(d_out.x) = 2 * ClaimChunks
        /\ Len(d_out.y) = 2 * ClaimChunks
        /\ \A i \in TailPositions : \A t \in 0..MaxLen, v \in 0..MaxVal :
              decimate_data([d_x EXCEPT ![i] = t], [d_y EXCEPT ![i] = v], d_max_points)
                  = d_out

\* a decimated series with a remainder whose last sample is the only one that
\* carries the largest value
W_C21_SpikeInRemainder ==
    /\ Decimated
    /\ Len(d_x) > d_max_points
    /\ TailPositions # {}
    /\ \A i \in 1..(Len(d_y) - 1) : d_y[i] < d_y[Len(d_y)]


(***************************************************************************)
(* Claims about the handlers that re-plot (checked under SpecReplot)       *)
(***************************************************************************)
\* update_plot finds a time column and a value column in the loaded series
Plottable ==
    /\ self_raw_data # None
    /\ y_col_of(self_raw_data, self_selected_channel) # ""
    /\ column_index(self_raw_data.columns, "Second") # 0

\* the curve shown is the decimation of the whole raw series at the current
\* max-points setting
PlotFromFullSeries ==
    LET dec == decimate_columns(column(self_raw_data, "Second"),
                                column(self_raw_data,
                                       y_col_of(self_raw_data, self_selected_channel)),
                                self_decimation_factor)
    IN /\ self_plot_widget # None
       /\ self_plot_widget.x = dec.x
       /\ self_plot_widget.y = dec.y

\* C23: the loaded series is immutable between loads: changing the max-points
\* setting or the selected channel, a view-range change, toggling dark mode
\* and adding or clearing cursors leave the raw series and the metadata
\* unchanged, and every re-plot decimates from the full raw series of the
\* current load, never from a previously decimated result.
C23_SeriesImmutableBetweenLoads ==
    /\ [][self_raw_data' = self_raw_data /\ self_metadata' = self_metadata]_vars
    /\ [](Plottable => PlotFromFullSeries)

\* a series of more samples than the max-points setting is shown decimated,
\* in dark mode, in a changed view and with cursors
W_C23_ReplottedDecimated ==
    /\ Plottable
    /\ Len(self_raw_data.rows) > self_decimation_factor
    /\ Len(self_plot_widget.x) < Len(self_raw_data.rows)
    /\ self_dark_mode
    /\ view_range.x # <<0, 20>>
    /\ Len(self_vertical_cursors) = 2
    /\ self_horizontal_cursors # <<>>

(***************************************************************************)
(* Claims about what a running load exposes (checked under SpecView)       *)
(***************************************************************************)
\* the results of the parse calls and of the binary reads that return a series
ReturnedResults ==
    { r \in { parse(find_parser(read_first_lines(file)), file).result :
                 file \in { f \in CsvFiles : find_parser(read_first_lines(f)) # "None" } }
             \cup { load_binary_call(bytes, params).result :
                       bytes \in BinaryFiles, params \in BinaryParams } :
          r.kind = "ok" }

\* what the loads that run to their end without an error store: those whose
\* update_plot call does not raise
CompletedLoads ==
    { [metadata |-> r.metadata, raw_data |-> r.data] :
          r \in { q \in ReturnedResults :
                     ~update_plot(q.metadata, q.data, channel_setup(q.metadata).selected,
                                  10000, None, LabelPoints(0, 0)).raised } }

\* the metadata and the raw series are those of a fresh viewer, or both were
\* stored by the same load, and that load completed successfully
FromOneCompletedLoad ==
    \/ self_metadata = EmptyDict /\ self_raw_data = None
    \/ [metadata |-> self_metadata, raw_data |-> self_raw_data] \in CompletedLoads

\* a load in progress has stored nothing yet
NothingExposed ==
    l_pc \in {"parsing", "binary"}
        => /\ self_metadata = h_pre.metadata
           /\ self_raw_data = h_pre.raw_data

\* C24: no partial update is observable: at every point where other handlers
\* can run, including view-change handlers dispatched from the event
\* processing of a progress update during a parse, the metadata and the raw
\* series both come from the same successfully completed load, and a load in
\* progress exposes neither its metadata nor a partially read series.
CE_C24_NoPartialUpdate ==
    EventsProcessed => (FromOneCompletedLoad /\ NothingExposed)

\* the file has a line whose first cell is the "time in s" column header
HasTimeHeader(file_lines) ==
    \E i \in 1..Len(file_lines) : file_lines[i] # <<>> /\ file_lines[i][1] = "time in s"

\* the payload structure the parser expects after detection is missing
StructureMissing(parser, file_lines) ==
    \/ parser = "Batronix" /\ ~HasTimeHeader(file_lines)
    \/ /\ parser = "BatronixDisplay"
       /\ \/ ~HasTimeHeader(file_lines)
          \/ CompleteChannels(DisplayHeader(file_lines)) = {}

\* C25 (as stated): for every parser, when the payload structure expected
\* after detection is missing, or the file has no data rows, parse ends with a
\* parse error that carries a cause; it never returns an empty series as a
\* success.
CE_C25_MalformedInputIsParseError ==
    ParseRanThrough =>
        LET got == l_script.result
        IN /\ got.kind = "ok" => got.data.rows # <<>>
           /\ StructureMissing(l_parser, l_file) => got.kind = "error"
           /\ got.kind = "error" => got.message # ""

(***************************************************************************)
(* Claims about parse and its progress events (checked under SpecParse)    *)
(***************************************************************************)
\* parse has been called with a callback
Reported == p_pc \in {"reported", "parsed"}

\* the progress events of that call, in order
ProgressEvents == SelectSeq(p_with.steps, LAMBDA st : st.op = "callback")

\* C26 (as stated): every progress event of a parse has total = 100 and
\* 0 <= current <= 100, the current values never decrease, the first event
\* has current = 0 and the last event of a successful parse has current = 100,
\* whatever the row-count estimate.
CE_C26_ProgressWellFormed ==
    Reported =>
        LET ev == ProgressEvents
        IN /\ \A i \in 1..Len(ev) :
                 ev[i].total = 100 /\ 0 <= ev[i].current /\ ev[i].current <= 100
           /\ \A i \in 1..(Len(ev) - 1) : ev[i].current <= ev[i + 1].current
           /\ ev # <<>> /\ ev[1].current = 0
           /\ p_with.result.kind = "ok" => ev[Len(ev)].current = 100

\* both calls have been made
ParsedBothWays == p_pc = "parsed"

\* C27 (as stated): parse called with a progress callback that never raises
\* ends as parse called with no callback does: with the same metadata and
\* series, or with the same failure.
CE_C27_ProgressDoesNotChangeResult ==
    ParsedBothWays => p_with.result = p_without.result

\* the numeric data lines of the file, in file order
NumericLines == SelectSeq(p_file, LineIsFloat)

\* the 'Sample Rate' of the preamble in twentieths, 1 when absent
DeclaredSampleRate ==
    IF \E i \in 1..Len(p_file) : p_file[i] = <<"Sample Rate:0.5">> THEN 10 ELSE 20

\* C28 (as stated): for every Rigol Arb file the returned series holds exactly
\* one sample per numeric data line of the file, in file order, no line
\* counted twice and none skipped (negative values and lines after blank or
\* non-metadata preamble lines included), and time[i] = i / sample_rate with
\* the 'Sample Rate' of the preamble, 1 when absent.
CE_C28_RigolArbSamplePreservation ==
    (Reported /\ p_parser = "RigolArb" /\ p_with.result.kind = "ok") =>
        p_with.result.data.rows =
            [i \in 1..Len(NumericLines) |->
                <<Num(((i - 1) * 400) \div DeclaredSampleRate),
                  Num(FloatOf(NumericLines[i][1]))>>]

(***************************************************************************)
(* More claims about the viewer's state (checked under Spec)               *)
(***************************************************************************)
\* the selected channel is unset or listed in the 'Channels' of the metadata
SelectedChannelListed ==
    \/ self_selected_channel = None
    \/ \E k \in 1..Len(channels_of(self_metadata)) :
          channels_of(self_metadata)[k] = self_selected_channel.ch

\* update_plot finds a value column in the loaded series
ValueColumnExists ==
    self_raw_data # None => y_col_of(self_raw_data, self_selected_channel) # ""

\* C29 (as stated): after every sequence of CSV loads, binary loads and
\* channel-selector changes the selected channel is unset or a member of the
\* 'Channels' list of the loaded metadata, and whenever a series is loaded the
\* column chosen for plotting exists in it.
CE_C29_SelectedChannelValid ==
    SelectedChannelListed /\ ValueColumnExists

(***************************************************************************)
(* The detected offset as load_binary uses it (checked under SpecDetect)   *)
(***************************************************************************)
\* largest offset the user can have typed into the dialog
MaxUserOffset == 5
UserOffsets == 0..MaxUserOffset

\* C30: the offset detect_header_offset returns is a multiple of
\* element_size * channel_count and is 0 or less than
\* min(max_scan_bytes, file_size), so the effective offset load_binary reads
\* from equals the detected offset exactly; when detection raises, load_binary
\* goes on with the offset the user provided.
C30_DetectedOffsetNeedsNoRealignment ==
    /\ Detected =>
          /\ a_best_offset % (dtype_map[a_params.dtype] * a_params.channel_count) = 0
          /\ a_best_offset = 0 \/ a_best_offset < Min2(max_scan_bytes, Len(a_bytes))
          /\ \A u \in UserOffsets : load_eff_offset(u) = a_best_offset
    /\ a_pc = "raised" =>
          \A u \in UserOffsets : offset_after_auto_detect(u) = u

\* a non-zero offset was detected in a file of two interleaved channels
W_C30_NonZeroOffsetDetected ==
    Detected /\ a_best_offset > 0 /\ a_params.channel_count = 2
====
